---- MODULE Spec2Model ----
(***************************************************************************)
(* Model of the HubSpot data-quality audit engine (DataQualityEngine) and  *)
(* of the signal registry it consults.                                     *)
(*                                                                         *)
(* Representation of JavaScript values:                                    *)
(*   - a property value is a string; the strings JSNull and JSUndefined    *)
(*     stand for null and for undefined / an absent property, "" is the    *)
(*     empty string and every other string is a non-empty string;          *)
(*   - a record collection is NullCollection (null) or Arr(s), s the       *)
(*     sequence of records of the array;                                   *)
(*   - a percentage is the exact rational [num, den] in lowest terms.  For *)
(*     collections of fewer than 40 records the IEEE-754 value of          *)
(*     (m / n) * 100 compares with 10 and with 30, and rounds with         *)
(*     Math.round, exactly as the rational does.                           *)
(***************************************************************************)
EXTENDS Integers, Sequences, FiniteSets, TLC

VARIABLES
    registry,    \* the module-level SIGNAL_REGISTRY object
    contacts,    \* this.contacts of the engine under audit
    companies,   \* this.companies
    deals,       \* this.deals
    result,      \* <<>> before runAudit, <<outcome>> after it
    prevRun,     \* <<>> or <<[contacts, companies, deals, result]>>: the previous run
    args,        \* arguments of a direct call of a helper method
    ret,         \* <<>> before the direct call, <<value>> after it
    agentInput,  \* <<>> or <<[by, input]>>: what the agent service sends to the model
    route,       \* the audit route serving the request: "audit" or "stream"
    routePc,     \* position of the route handler
    accumulated, \* <<>> or <<object>>: accumulated of the streaming loop
    output,      \* <<>> or <<object>>: output of runExecutiveAgent
    aiOutput,    \* <<>> or <<outcome>>: what runExecutiveAgent returned or threw
    response,    \* <<>> or <<[status, ...]>>: the JSON response of POST /audit
    events,      \* the events written to the stream of POST /audit/stream
    ended,       \* whether res.end() was called on the stream
    objectType,  \* fetchAll: the object type asked for
    maxRecords,  \* fetchAll: the limit passed by the caller
    allResults,  \* fetchAll: the records collected so far
    after,       \* fetchAll: <<>> (undefined) or <<cursor>> of the next page
    pages,       \* the pages the server has returned to this call, in order
    fetchPc,     \* fetchAll: "idle", "requesting" (awaiting a page) or "done"
    fetchRet,    \* <<>> or <<outcome>>: what fetchAll returned or threw
    tokenFile,   \* <<>> (no file) or <<the parsed content of tokens.json>>
    now,         \* Date.now(), in units of five minutes
    pendingStates, \* the Map of the OAuth router, as a set of [state, createdAt]
    installs,    \* every state /install has issued, with its createdAt
    callbacks,   \* the requests /oauth/callback has received, with their answers
    hub_id,      \* the argument of getValidToken: <<>> when the body has none
    tokenPc,     \* where the call of getValidToken is
    tokenRet,    \* what getValidToken returned
    returnedAt,  \* Date.now() when getValidToken returned
    storeCalls,  \* the calls of saveToken and refreshToken made so far
    saved        \* the writes of saveToken, in the order they completed

engineVars == <<registry, contacts, companies, deals, result, prevRun, args, ret>>

agentVars == <<agentInput, route, routePc, accumulated, output, aiOutput, response, events, ended>>

routeVars == <<route, routePc, accumulated, output, aiOutput, response, events, ended>>

fetchVars == <<objectType, maxRecords, allResults, after, pages, fetchPc, fetchRet>>

oauthVars == <<pendingStates, installs, callbacks>>
tokenVars == <<hub_id, tokenPc, tokenRet, returnedAt>>
storeVars == <<storeCalls, saved>>
authVars == <<tokenFile, now, oauthVars, tokenVars, storeVars>>

serviceVars == <<agentVars, fetchVars, authVars>>

vars == <<engineVars, serviceVars>>

\* the agent service before a request
AgentIdle ==
    /\ agentInput = <<>>
    /\ route = "none"
    /\ routePc = "idle"
    /\ accumulated = <<>>
    /\ output = <<>>
    /\ aiOutput = <<>>
    /\ response = <<>>
    /\ events = <<>>
    /\ ended = FALSE

\* no fetchAll call
FetchIdle ==
    /\ objectType = "none"
    /\ maxRecords = 0
    /\ allResults = <<>>
    /\ after = <<>>
    /\ pages = <<>>
    /\ fetchPc = "idle"
    /\ fetchRet = <<>>

\* no token file, no OAuth flow
OAuthIdle ==
    /\ pendingStates = {}
    /\ installs = {}
    /\ callbacks = <<>>

TokenIdle ==
    /\ hub_id = <<>>
    /\ tokenPc = "idle"
    /\ tokenRet = <<>>
    /\ returnedAt = <<>>

StoreIdle ==
    /\ storeCalls = <<>>
    /\ saved = <<>>

AuthIdle ==
    /\ tokenFile = <<>>
    /\ now = 0
    /\ OAuthIdle
    /\ TokenIdle
    /\ StoreIdle

\* the services around the engine at rest
ServicesInit == AgentIdle /\ FetchIdle /\ AuthIdle

---------------------------------------------------------------------------
(* Bounds of the model *)

\* records per non-empty collection of an audit run
NumRecs == 4
\* largest number of records missing one field in an audit run
MaxMissing == 2
\* longest collection passed directly to calculateMissingPct
MaxLen == 2
\* largest denominator of a percentage passed directly to getSeverity
MaxDen == 10
\* longest signals list passed directly to generatePrioritizedActions
MaxSignals == 2

---------------------------------------------------------------------------
(* JavaScript values *)

JSNull == "<null>"
JSUndefined == "<undefined>"
PropertyValues == {JSNull, JSUndefined, "", "x"}

NullCollection == [kind |-> "null"]
Arr(s) == [kind |-> "array", items |-> s]

\* !records
IsFalsyCollection(c) == c.kind = "null"

\* !v for a property value (a string, null or undefined)
IsFalsy(v) == v = JSNull \/ v = JSUndefined \/ v = ""

Min(a, b) == IF a < b THEN a ELSE b
Max(a, b) == IF a > b THEN a ELSE b

RECURSIVE GCD(_, _)
GCD(a, b) == IF b = 0 THEN a ELSE GCD(b, a % b)

\* the number num / den, den > 0, in lowest terms
Rat(num, den) ==
    LET g == GCD(num, den)
    IN  IF num = 0 THEN [num |-> 0, den |-> 1]
        ELSE [num |-> num \div g, den |-> den \div g]

\* pct > k for an integer k
GreaterThan(pct, k) == pct.num > k * pct.den

\* a faulty variant: the sign of the difference is inverted
CompareValues_Reversed(a, b) ==
    LET l == a.num * b.den
        r == b.num * a.den
    IN  IF l < r THEN 1 ELSE IF l > r THEN -1 ELSE 0

\* a.value - b.value < 0, = 0, > 0 as -1, 0, 1
CompareValues(a, b) ==
    LET l == a.num * b.den
        r == b.num * a.den
    IN  IF l < r THEN -1 ELSE IF l > r THEN 1 ELSE 0

\* a faulty variant: Math.floor
MathRound_Floor(pct) == pct.num \div pct.den

\* Math.round of a non-negative number: halves round up
MathRound(pct) == (2 * pct.num + pct.den) \div (2 * pct.den)

---------------------------------------------------------------------------
(* Missingness calculator and severity classifier *)

\* a faulty variant: the empty string counts as a present value
calculateMissingPct_NoEmptyString(records, property) ==
    IF IsFalsyCollection(records) \/ Len(records.items) = 0 THEN Rat(0, 1)
    ELSE LET missingCount == Len(SelectSeq(records.items,
                 LAMBDA r : r[property] = JSNull \/ r[property] = JSUndefined))
         IN  Rat(missingCount * 100, Len(records.items))

\* a faulty variant: the string "0" counts as a missing value
calculateMissingPct_ZeroMissing(records, property) ==
    IF IsFalsyCollection(records) \/ Len(records.items) = 0 THEN Rat(0, 1)
    ELSE LET missingCount == Len(SelectSeq(records.items,
                 LAMBDA r : r[property] = JSNull \/ r[property] = JSUndefined
                            \/ r[property] = "" \/ r[property] = "0"))
         IN  Rat(missingCount * 100, Len(records.items))

calculateMissingPct(records, property) ==
    IF IsFalsyCollection(records) \/ Len(records.items) = 0 THEN Rat(0, 1)
    ELSE LET missingCount == Len(SelectSeq(records.items,
                 LAMBDA r : r[property] = JSNull \/ r[property] = JSUndefined
                            \/ r[property] = ""))
         IN  Rat(missingCount * 100, Len(records.items))

\* a faulty variant: the high threshold is inclusive
getSeverity_Inclusive(pct, criticality) ==
    IF criticality = "critical" /\ GreaterThan(pct, 30) THEN "high"
    ELSE IF pct.num >= 30 * pct.den THEN "high"
    ELSE IF GreaterThan(pct, 10) THEN "medium"
    ELSE "low"

getSeverity(pct, criticality) ==
    IF criticality = "critical" /\ GreaterThan(pct, 30) THEN "high"
    ELSE IF GreaterThan(pct, 30) THEN "high"
    ELSE IF GreaterThan(pct, 10) THEN "medium"
    ELSE "low"

---------------------------------------------------------------------------
(* Signal registry *)

SIGNAL_REGISTRY ==
    [contacts_missing_email_pct |->
        [id |-> "contacts_missing_email_pct",
         label |-> "Contacts Missing Email",
         criticality |-> "high",
         domain |-> "marketing_attribution",
         impacts |-> <<"Cannot identify returning visitors",
                       "Attribution reporting will be incomplete",
                       "Marketing automation emails will fail">>],
     contacts_missing_lifecycle_pct |->
        [id |-> "contacts_missing_lifecycle_pct",
         label |-> "Contacts Missing Lifecycle Stage",
         criticality |-> "high",
         domain |-> "funnel_visibility",
         impacts |-> <<"Funnel conversion rates cannot be calculated",
                       "Leads may get stuck in limbo without clear ownership",
                       "Marketing cannot segment by buying stage">>],
     companies_missing_domain_pct |->
        [id |-> "companies_missing_domain_pct",
         label |-> "Companies Missing Domain Name",
         criticality |-> "high",
         domain |-> "data_enrichment",
         impacts |-> <<"Automatic association of contacts to companies will fail",
                       "De-duplication logic is compromised",
                       "Third-party enrichment tools cannot function">>],
     companies_missing_industry_pct |->
        [id |-> "companies_missing_industry_pct",
         label |-> "Companies Missing Industry",
         criticality |-> "medium",
         domain |-> "segmentation",
         impacts |-> <<"ICP (Ideal Customer Profile) analysis unavailable",
                       "Account segmentation for ABM is impossible",
                       "Strategic reporting by vertical is compromised">>],
     deals_missing_close_date_pct |->
        [id |-> "deals_missing_close_date_pct",
         label |-> "Deals Missing Close Date",
         criticality |-> "critical",
         domain |-> "revenue_forecasting",
         impacts |-> <<"Forecast accuracy is fundamentally unreliable",
                       "Revenue projections cannot be trusted",
                       "Sales velocity metrics will be incorrect">>],
     deals_missing_amount_pct |->
        [id |-> "deals_missing_amount_pct",
         label |-> "Deals Missing Amount",
         criticality |-> "critical",
         domain |-> "revenue_forecasting",
         impacts |-> <<"Total pipeline value is underreported",
                       "Win rates by value cannot be calculated",
                       "Rep quota attainment tracking is broken">>],
     deals_missing_pipeline_or_stage_pct |->
        [id |-> "deals_missing_pipeline_or_stage_pct",
         label |-> "Deals Missing Pipeline/Stage",
         criticality |-> "critical",
         domain |-> "sales_process",
         impacts |-> <<"Deals are invisible in the board view",
                       "Sales process adherence cannot be verified",
                       "Conversion rates between stages are calculable">>]]

\* the keys runAudit passes to processSignal, in call order
SignalKeys ==
    <<"contacts_missing_email_pct", "contacts_missing_lifecycle_pct",
      "companies_missing_domain_pct", "companies_missing_industry_pct",
      "deals_missing_close_date_pct", "deals_missing_amount_pct",
      "deals_missing_pipeline_or_stage_pct">>

\* a key of neither the registry nor the action catalog
UnknownKey == "stale_deals_pct"

\* key.startsWith(prefix), prefix one of "deals_", "companies_", "contacts_"
StartsWith(key, prefix) ==
    CASE prefix = "deals_" ->
            key \in {"deals_missing_close_date_pct", "deals_missing_amount_pct",
                     "deals_missing_pipeline_or_stage_pct"}
      [] prefix = "companies_" ->
            key \in {"companies_missing_domain_pct", "companies_missing_industry_pct"}
      [] prefix = "contacts_" ->
            key \in {"contacts_missing_email_pct", "contacts_missing_lifecycle_pct"}
      [] OTHER -> FALSE

\* label.toLowerCase().replace("missing ", "").replace(" pct", "")
NormalizeLabel(label) ==
    CASE label = "Contacts Missing Email" -> "contacts email"
      [] label = "Contacts Missing Lifecycle Stage" -> "contacts lifecycle stage"
      [] label = "Companies Missing Domain Name" -> "companies domain name"
      [] label = "Companies Missing Industry" -> "companies industry"
      [] label = "Deals Missing Close Date" -> "deals close date"
      [] label = "Deals Missing Amount" -> "deals amount"
      [] label = "Deals Missing Pipeline/Stage" -> "deals pipeline/stage"
      [] label = "Stale Deals Pct" -> "stale deals"

\* a faulty variant: an element is placed before the elements of equal key
StableSortDesc_Unstable(s) ==
    LET Insert(sorted, x) ==
            LET k == Len(SelectSeq(sorted, LAMBDA y : CompareValues(x.key, y.key) < 0))
            IN  SubSeq(sorted, 1, k) \o <<x>> \o SubSeq(sorted, k + 1, Len(sorted))
        f[i \in 0..Len(s)] == IF i = 0 THEN <<>> ELSE Insert(f[i - 1], s[i])
    IN  f[Len(s)]

\* array.sort((a, b) => b.key - a.key) over a sequence of records with a
\* numeric field key: descending, stable (cmp(a, b) <= 0 keeps a before b)
StableSortDesc(s) ==
    LET Insert(sorted, x) ==
            LET k == Len(SelectSeq(sorted, LAMBDA y : CompareValues(x.key, y.key) <= 0))
            IN  SubSeq(sorted, 1, k) \o <<x>> \o SubSeq(sorted, k + 1, Len(sorted))
        f[i \in 0..Len(s)] == IF i = 0 THEN <<>> ELSE Insert(f[i - 1], s[i])
    IN  f[Len(s)]

RatAdd(a, b) == Rat(a.num * b.den + b.num * a.den, a.den * b.den)

\* values.reduce((sum, s) => sum + s.value, 0)
RECURSIVE SumValues(_)
SumValues(s) == IF s = <<>> THEN Rat(0, 1) ELSE RatAdd(Head(s).value, SumValues(Tail(s)))

---------------------------------------------------------------------------
(* Risk driver, action prioritizer and grouping *)

AcceptableSentence == "Data quality is acceptable. Minor improvements recommended."

\* a faulty variant: without the fallback to the worst high-severity signal
derivePrimaryRiskDriver_NoHighFallback(signals) ==
    LET criticalHighSeverity ==
            SelectSeq(signals, LAMBDA s : s.criticality = "critical" /\ s.severity = "high")
        dealSignals ==
            SelectSeq(criticalHighSeverity, LAMBDA s : StartsWith(s.key, "deals_"))
        sum == SumValues(dealSignals)
        avgValue == MathRound(Rat(sum.num, sum.den * Len(dealSignals)))
    IN  IF Len(criticalHighSeverity) > 0 /\ Len(dealSignals) >= 2
        THEN "Forecast integrity is compromised: " \o ToString(avgValue)
             \o "% of deals lack critical forecasting fields (close date, amount), "
             \o "making revenue projections unreliable."
        ELSE IF Len(criticalHighSeverity) > 0 /\ Len(dealSignals) = 1
        THEN dealSignals[1].label \o ": " \o ToString(MathRound(dealSignals[1].value))
             \o "% of deals affected. " \o dealSignals[1].impacts[1] \o "."
        ELSE AcceptableSentence

derivePrimaryRiskDriver(signals) ==
    LET criticalHighSeverity ==
            SelectSeq(signals, LAMBDA s : s.criticality = "critical" /\ s.severity = "high")
        dealSignals ==
            SelectSeq(criticalHighSeverity, LAMBDA s : StartsWith(s.key, "deals_"))
        highSeverity == SelectSeq(signals, LAMBDA s : s.severity = "high")
        worst == StableSortDesc([i \in 1..Len(highSeverity) |->
                                    [key |-> highSeverity[i].value,
                                     signal |-> highSeverity[i]]])[1].signal
        sum == SumValues(dealSignals)
        avgValue == MathRound(Rat(sum.num, sum.den * Len(dealSignals)))
    IN  IF Len(criticalHighSeverity) > 0 /\ Len(dealSignals) >= 2
        THEN "Forecast integrity is compromised: " \o ToString(avgValue)
             \o "% of deals lack critical forecasting fields (close date, amount), "
             \o "making revenue projections unreliable."
        ELSE IF Len(criticalHighSeverity) > 0 /\ Len(dealSignals) = 1
        THEN dealSignals[1].label \o ": " \o ToString(MathRound(dealSignals[1].value))
             \o "% of deals affected. " \o dealSignals[1].impacts[1] \o "."
        ELSE IF Len(highSeverity) > 0
        THEN worst.label \o ": " \o ToString(MathRound(worst.value))
             \o "% missing. " \o worst.impacts[1] \o "."
        ELSE AcceptableSentence

\* a faulty variant: the in-place sort is applied to the signals array itself
SignalsAfterDerive_SortsInPlace(signals) ==
    LET criticalHighSeverity ==
            SelectSeq(signals, LAMBDA s : s.criticality = "critical" /\ s.severity = "high")
        dealSignals ==
            SelectSeq(criticalHighSeverity, LAMBDA s : StartsWith(s.key, "deals_"))
        highSeverity == SelectSeq(signals, LAMBDA s : s.severity = "high")
        sortReached ==
            /\ ~(Len(criticalHighSeverity) > 0 /\ Len(dealSignals) >= 1)
            /\ Len(highSeverity) > 0
        sorted == StableSortDesc([i \in 1..Len(signals) |->
                                    [key |-> signals[i].value, signal |-> signals[i]]])
    IN  IF sortReached THEN [i \in 1..Len(sorted) |-> sorted[i].signal] ELSE signals

\* the content of the array passed as signals after derivePrimaryRiskDriver:
\* filter allocates the arrays criticalHighSeverity, dealSignals and
\* highSeverity, and sort reorders the array it is called on, highSeverity
SignalsAfterDerive(signals) ==
    LET criticalHighSeverity ==
            SelectSeq(signals, LAMBDA s : s.criticality = "critical" /\ s.severity = "high")
        dealSignals ==
            SelectSeq(criticalHighSeverity, LAMBDA s : StartsWith(s.key, "deals_"))
        highSeverity == SelectSeq(signals, LAMBDA s : s.severity = "high")
        sortReached ==
            /\ ~(Len(criticalHighSeverity) > 0 /\ Len(dealSignals) >= 1)
            /\ Len(highSeverity) > 0
        sorted == StableSortDesc([i \in 1..Len(highSeverity) |->
                                    [key |-> highSeverity[i].value,
                                     signal |-> highSeverity[i]]])
        arrays == [signals |-> signals,
                   highSeverity |-> IF sortReached
                                    THEN [i \in 1..Len(sorted) |-> sorted[i].signal]
                                    ELSE highSeverity]
    IN  arrays.signals

ACTION_TEMPLATES ==
    [deals_missing_close_date_pct |->
        [action |-> "Enforce required Close Date on all deals",
         effort |-> "low", time_to_value_days |-> 7,
         domain |-> "revenue_forecasting", owner_role |-> "Sales Ops",
         order_weight |-> 100],
     deals_missing_amount_pct |->
        [action |-> "Enforce required Amount field on all deals",
         effort |-> "low", time_to_value_days |-> 7,
         domain |-> "revenue_forecasting", owner_role |-> "Sales Ops",
         order_weight |-> 99],
     deals_missing_pipeline_or_stage_pct |->
        [action |-> "Standardize deal pipeline and stage enforcement",
         effort |-> "low", time_to_value_days |-> 7,
         domain |-> "sales_process", owner_role |-> "Sales Ops",
         order_weight |-> 98],
     contacts_missing_lifecycle_pct |->
        [action |-> "Mandate lifecycle stage assignment on contacts",
         effort |-> "medium", time_to_value_days |-> 21,
         domain |-> "funnel_visibility", owner_role |-> "RevOps",
         order_weight |-> 80],
     contacts_missing_email_pct |->
        [action |-> "Implement email validation workflow for new contacts",
         effort |-> "medium", time_to_value_days |-> 14,
         domain |-> "marketing_attribution", owner_role |-> "Marketing Ops",
         order_weight |-> 50],
     companies_missing_domain_pct |->
        [action |-> "Enable automatic company domain enrichment",
         effort |-> "low", time_to_value_days |-> 7,
         domain |-> "data_enrichment", owner_role |-> "RevOps",
         order_weight |-> 60],
     companies_missing_industry_pct |->
        [action |-> "Add industry classification via enrichment or manual process",
         effort |-> "medium", time_to_value_days |-> 30,
         domain |-> "segmentation", owner_role |-> "Marketing Ops",
         order_weight |-> 40]]

\* a faulty variant: the fifth action is already secondary
ActionTier_OffByOne(priority) == IF priority < 5 THEN "primary" ELSE "secondary"

\* the tier of the action pushed with this priority
ActionTier(priority) == IF priority <= 5 THEN "primary" ELSE "secondary"

\* a faulty variant: low-severity signals are not discarded
ActionableSignals_KeepLow(signals) ==
    SelectSeq(signals, LAMBDA s : s.key \in DOMAIN ACTION_TEMPLATES)

\* the signals that get an action: severity not low and a template for the key
ActionableSignals(signals) ==
    SelectSeq(SelectSeq(signals, LAMBDA s : s.severity # "low"),
           LAMBDA s : s.key \in DOMAIN ACTION_TEMPLATES)

generatePrioritizedActions(signals) ==
    LET scoredSignals ==
            [i \in 1..Len(ActionableSignals(signals)) |->
                LET signal == ActionableSignals(signals)[i]
                    template == ACTION_TEMPLATES[signal.key]
                    score == template.order_weight
                             + (IF signal.severity = "high" THEN 10 ELSE 0)
                IN  [signal |-> signal, template |-> template,
                     score |-> score, key |-> Rat(score, 1)]]
        sorted == StableSortDesc(scoredSignals)
    IN  [i \in 1..Len(sorted) |->
            LET signal == sorted[i].signal
                template == sorted[i].template
            IN  [priority |-> i,
                 action |-> template.action,
                 signal_key |-> signal.key,
                 why |-> ToString(MathRound(signal.value)) \o "% of "
                         \o NormalizeLabel(signal.label) \o " affected. "
                         \o signal.impacts[1] \o ".",
                 effort |-> template.effort,
                 time_to_value_days |-> template.time_to_value_days,
                 owner_role |-> template.owner_role,
                 impacts |-> SubSeq(signal.impacts, 1, Min(2, Len(signal.impacts))),
                 criticality |-> signal.criticality,
                 severity |-> signal.severity,
                 tier |-> ActionTier(i)]]

\* the content of the array passed as signals after
\* generatePrioritizedActions: filter and map allocate actionableSignals and
\* scoredSignals, and sort reorders the array it is called on, scoredSignals
SignalsAfterPrioritize(signals) ==
    LET actionable == ActionableSignals(signals)
        scoredSignals ==
            [i \in 1..Len(actionable) |->
                [signal |-> actionable[i],
                 key |-> Rat(ACTION_TEMPLATES[actionable[i].key].order_weight
                             + (IF actionable[i].severity = "high" THEN 10 ELSE 0), 1)]]
        arrays == [signals |-> signals,
                   scoredSignals |-> StableSortDesc(scoredSignals)]
    IN  arrays.signals

groupSignalsByObject(signals) ==
    [deals |-> SelectSeq(signals, LAMBDA s : StartsWith(s.key, "deals_")),
     companies |-> SelectSeq(signals, LAMBDA s : StartsWith(s.key, "companies_")),
     contacts |-> SelectSeq(signals, LAMBDA s : StartsWith(s.key, "contacts_"))]

---------------------------------------------------------------------------
(* runAudit *)

\* a faulty variant: a low signal costs nothing
Penalty_LowFree(severity) ==
    IF severity = "high" THEN 30 ELSE IF severity = "medium" THEN 15 ELSE 0

\* a faulty variant: the penalties of high and medium are exchanged
Penalty_Swapped(severity) ==
    IF severity = "high" THEN 15 ELSE IF severity = "medium" THEN 30 ELSE 5

\* the penalty of one signal before weighting
Penalty(severity) ==
    IF severity = "high" THEN 30 ELSE IF severity = "medium" THEN 15 ELSE 5

\* a faulty variant: critical signals are not weighted
Weight_NoBoost(criticality) == 1

\* the weight of one signal
Weight(criticality) == IF criticality = "critical" THEN 2 ELSE 1

\* the accumulators of runAudit before the first processSignal
EmptyAcc == [signalResults |-> <<>>, highCount |-> 0, mediumCount |-> 0, totalPenalty |-> 0]

\* a faulty variant: a key without a definition is still penalised as low
processSignal_PenaltyForUnknown(reg, acc, key, value) ==
    IF key \notin DOMAIN reg THEN [acc EXCEPT !.totalPenalty = @ + 5]
    ELSE LET config == reg[key]
             severity == getSeverity(value, config.criticality)
         IN  [signalResults |->
                 Append(acc.signalResults,
                        [key |-> key, label |-> config.label, value |-> value,
                         severity |-> severity, criticality |-> config.criticality,
                         impacts |-> config.impacts]),
              highCount |-> acc.highCount + (IF severity = "high" THEN 1 ELSE 0),
              mediumCount |-> acc.mediumCount + (IF severity = "medium" THEN 1 ELSE 0),
              totalPenalty |-> acc.totalPenalty
                               + Penalty(severity) * Weight(config.criticality)]

processSignal(reg, acc, key, value) ==
    IF key \notin DOMAIN reg THEN acc
    ELSE LET config == reg[key]
             severity == getSeverity(value, config.criticality)
         IN  [signalResults |->
                 Append(acc.signalResults,
                        [key |-> key, label |-> config.label, value |-> value,
                         severity |-> severity, criticality |-> config.criticality,
                         impacts |-> config.impacts]),
              highCount |-> acc.highCount + (IF severity = "high" THEN 1 ELSE 0),
              mediumCount |-> acc.mediumCount + (IF severity = "medium" THEN 1 ELSE 0),
              totalPenalty |-> acc.totalPenalty
                               + Penalty(severity) * Weight(config.criticality)]

\* a faulty variant: a deal counts only when it lacks both fields
MissingStage_Both(dealItems) ==
    IF Len(dealItems) # 0
    THEN Rat(Len(SelectSeq(dealItems,
                 LAMBDA d : IsFalsy(d.dealstage) /\ IsFalsy(d.pipeline))) * 100,
             Len(dealItems))
    ELSE Rat(0, 1)

\* the percentage of deals missing the stage or the pipeline
MissingStage(dealItems) ==
    IF Len(dealItems) # 0
    THEN Rat(Len(SelectSeq(dealItems,
                 LAMBDA d : IsFalsy(d.dealstage) \/ IsFalsy(d.pipeline))) * 100,
             Len(dealItems))
    ELSE Rat(0, 1)

\* a faulty variant: the score is neither floored nor overridden when it falls below 10
ScoreWithFloor_NoFloor(totalPenalty, dealCount, signalResults) ==
    IF dealCount = 0 THEN 0 ELSE 100 - totalPenalty

\* a faulty variant: an empty deals collection does not force the score to 0
ScoreWithFloor_NoDealsOverride(totalPenalty, dealCount, signalResults) ==
    LET score == 100 - totalPenalty
        isTrulyBroken ==
            \A i \in 1..Len(signalResults) : signalResults[i].severity = "high"
    IN  IF isTrulyBroken THEN 0 ELSE IF score < 10 THEN 10 ELSE score

\* the score before Math.round
ScoreWithFloor(totalPenalty, dealCount, signalResults) ==
    LET score == 100 - totalPenalty
        isTrulyBroken ==
            dealCount = 0 \/ \A i \in 1..Len(signalResults) : signalResults[i].severity = "high"
    IN  IF isTrulyBroken THEN 0 ELSE IF score < 10 THEN 10 ELSE score

\* a faulty variant: a failing critical signal does not force high
OverallSeverity_NoCriticalOverride(highCount, mediumCount, signalResults) ==
    IF highCount >= 2 THEN "high" ELSE IF mediumCount >= 2 THEN "medium" ELSE "low"

OverallSeverity(highCount, mediumCount, signalResults) ==
    LET byCount == IF highCount >= 2 THEN "high"
                   ELSE IF mediumCount >= 2 THEN "medium" ELSE "low"
        hasCriticalFail ==
            \E i \in 1..Len(signalResults) :
                signalResults[i].criticality = "critical" /\ signalResults[i].severity = "high"
    IN  IF hasCriticalFail THEN "high" ELSE byCount

\* reading .length of null
Threw == [status |-> "threw", error |-> "TypeError"]

\* the accumulators of runAudit after its seven processSignal calls,
\* for a deals collection that is an array
processSignals(reg, c, co, d) ==
    LET a1 == processSignal(reg, EmptyAcc, "contacts_missing_email_pct",
                            calculateMissingPct(c, "email"))
        a2 == processSignal(reg, a1, "contacts_missing_lifecycle_pct",
                            calculateMissingPct(c, "lifecyclestage"))
        a3 == processSignal(reg, a2, "companies_missing_domain_pct",
                            calculateMissingPct(co, "domain"))
        a4 == processSignal(reg, a3, "companies_missing_industry_pct",
                            calculateMissingPct(co, "industry"))
        a5 == processSignal(reg, a4, "deals_missing_close_date_pct",
                            calculateMissingPct(d, "closedate"))
        a6 == processSignal(reg, a5, "deals_missing_amount_pct",
                            calculateMissingPct(d, "amount"))
    IN  processSignal(reg, a6, "deals_missing_pipeline_or_stage_pct",
                      MissingStage(d.items))

\* the outcome of new DataQualityEngine(c, co, d).runAudit() with registry reg
runAudit(reg, c, co, d) ==
    IF d.kind = "null" THEN Threw
    ELSE
    LET acc == processSignals(reg, c, co, d)
        signalResults == acc.signalResults
        score == ScoreWithFloor(acc.totalPenalty, Len(d.items), signalResults)
        afterDerive == SignalsAfterDerive(signalResults)
        afterPrioritize == SignalsAfterPrioritize(afterDerive)
    IN  IF c.kind = "null" \/ co.kind = "null" THEN Threw
        ELSE [status |-> "returned",
              overall_health |->
                  [score |-> MathRound(Rat(score, 1)),
                   severity |-> OverallSeverity(acc.highCount, acc.mediumCount, signalResults),
                   primary_risk_driver |-> derivePrimaryRiskDriver(signalResults)],
              signals |-> afterPrioritize,
              signals_by_object |-> groupSignalsByObject(afterPrioritize),
              prioritized_actions |-> generatePrioritizedActions(afterDerive),
              metadata |-> [contacts_count |-> Len(c.items),
                            companies_count |-> Len(co.items),
                            deals_count |-> Len(d.items)]]

---------------------------------------------------------------------------
(* Input collections of an audit run *)

\* the ways a field is missing, varied along the collection
MissingKind(i) == IF i % 3 = 1 THEN JSNull ELSE IF i % 3 = 2 THEN "" ELSE JSUndefined

\* n contacts: the first e lack the email, the last l lack the lifecycle stage
MkContacts(n, e, l) ==
    Arr([i \in 1..n |->
            [email |-> IF i <= e THEN MissingKind(i) ELSE "x",
             lifecyclestage |-> IF i > n - l THEN MissingKind(i) ELSE "x"]])

\* n companies: the first d lack the domain, the last k lack the industry
MkCompanies(n, d, k) ==
    Arr([i \in 1..n |->
            [domain |-> IF i <= d THEN MissingKind(i) ELSE "x",
             industry |-> IF i > n - k THEN MissingKind(i) ELSE "x"]])

\* n deals: the first c lack the close date, the last a the amount,
\* the first s the stage and the last p the pipeline
MkDeals(n, c, a, s, p) ==
    Arr([i \in 1..n |->
            [closedate |-> IF i <= c THEN MissingKind(i) ELSE "x",
             amount |-> IF i > n - a THEN MissingKind(i) ELSE "x",
             dealstage |-> IF i <= s THEN MissingKind(i) ELSE "x",
             pipeline |-> IF i > n - p THEN MissingKind(i) ELSE "x"]])

MissingCounts == 0..Min(MaxMissing, NumRecs)

\* for contacts also the collection in which every record lacks the field
ContactCounts == MissingCounts \cup {NumRecs}

ContactsInputs ==
    {NullCollection, Arr(<<>>)}
    \cup {MkContacts(NumRecs, e, l) : e \in ContactCounts, l \in ContactCounts}

CompaniesInputs ==
    {NullCollection, Arr(<<>>)}
    \cup {MkCompanies(NumRecs, d, k) : d \in MissingCounts, k \in MissingCounts}

DealsInputs ==
    {NullCollection, Arr(<<>>)}
    \cup {MkDeals(NumRecs, c, a, s, p) :
            c \in MissingCounts, a \in MissingCounts,
            s \in MissingCounts, p \in MissingCounts}

\* the smaller input sets of the specification of consecutive runs:
\* no record, one record or MaxMissing records lack a field
PairCounts == {0, Min(1, NumRecs), Min(MaxMissing, NumRecs)}

PairContactsInputs == {MkContacts(NumRecs, e, e) : e \in PairCounts}

PairCompaniesInputs == {MkCompanies(NumRecs, d, 0) : d \in PairCounts}

PairDealsInputs ==
    {Arr(<<>>)}
    \cup {MkDeals(NumRecs, c, a, a, 0) : c \in PairCounts, a \in PairCounts}

---------------------------------------------------------------------------
(* Specification of one audit run: the route handler constructs an engine  *)
(* over the fetched collections and calls runAudit once.                   *)

Init ==
    /\ registry = SIGNAL_REGISTRY
    /\ contacts \in ContactsInputs
    /\ companies \in CompaniesInputs
    /\ deals \in DealsInputs
    /\ result = <<>>
    /\ prevRun = <<>>
    /\ args = <<>>
    /\ ret = <<>>
    /\ ServicesInit

\* a faulty variant: the action impacts are taken with splice(0, 2), which
\* removes them from the registry list the signal shares
RunAudit_SpliceImpacts ==
    /\ result = <<>>
    /\ result' = <<runAudit(registry, contacts, companies, deals)>>
    /\ registry' =
          [k \in DOMAIN registry |->
              IF /\ result'[1].status = "returned"
                 /\ \E i \in 1..Len(result'[1].prioritized_actions) :
                       result'[1].prioritized_actions[i].signal_key = k
                 /\ Len(registry[k].impacts) >= 3
              THEN [registry[k] EXCEPT !.impacts = Tail(Tail(@))]
              ELSE registry[k]]
    /\ UNCHANGED <<contacts, companies, deals, prevRun, args, ret>>
    /\ UNCHANGED serviceVars

RunAudit ==
    /\ result = <<>>
    /\ result' = <<runAudit(registry, contacts, companies, deals)>>
    /\ UNCHANGED <<registry, contacts, companies, deals, prevRun, args, ret>>
    /\ UNCHANGED serviceVars

Next == RunAudit

Spec == Init /\ [][Next]_vars

---------------------------------------------------------------------------
(* Specification of consecutive audit runs: after a run the handler of the *)
(* next request constructs a new engine over newly fetched collections.    *)

InitRuns ==
    /\ registry = SIGNAL_REGISTRY
    /\ contacts \in PairContactsInputs
    /\ companies \in PairCompaniesInputs
    /\ deals \in PairDealsInputs
    /\ result = <<>>
    /\ prevRun = <<>>
    /\ args = <<>>
    /\ ret = <<>>
    /\ ServicesInit

NewAudit ==
    /\ result # <<>>
    /\ prevRun' = <<[contacts |-> contacts, companies |-> companies,
                     deals |-> deals, result |-> result[1]]>>
    /\ contacts' \in PairContactsInputs
    /\ companies' \in PairCompaniesInputs
    /\ deals' \in PairDealsInputs
    /\ result' = <<>>
    /\ UNCHANGED <<registry, args, ret>>
    /\ UNCHANGED serviceVars

NextRuns == RunAudit \/ NewAudit

SpecRuns == InitRuns /\ [][NextRuns]_vars

---------------------------------------------------------------------------
(* Specification of consecutive runs with a caller that keeps the result   *)
(* of the previous run: each signal's impacts is the registry's own array  *)
(* (impacts: config.impacts), so a write through a result is a write to    *)
(* the registry and to every result that holds the same array.             *)

CallerImpact == "caller_note"

SharedCounts == {0, Min(MaxMissing, NumRecs)}

SharedContactsInputs == {MkContacts(NumRecs, e, e) : e \in SharedCounts}

SharedCompaniesInputs == {MkCompanies(NumRecs, 0, 0)}

SharedDealsInputs == {MkDeals(NumRecs, c, 0, 0, 0) : c \in SharedCounts}

\* an audit result whose signals hold the impacts arrays of reg: the
\* prioritized actions hold slice(0, 2) copies and are not touched
AliasImpacts(res, reg) ==
    IF res.status # "returned" THEN res
    ELSE LET alias(signals) ==
                 [i \in 1..Len(signals) |->
                     [signals[i] EXCEPT !.impacts = reg[signals[i].key].impacts]]
         IN  [res EXCEPT
                 !.signals = alias(@),
                 !.signals_by_object =
                     [deals |-> alias(@.deals),
                      companies |-> alias(@.companies),
                      contacts |-> alias(@.contacts)]]

InitShared ==
    /\ registry = SIGNAL_REGISTRY
    /\ contacts \in SharedContactsInputs
    /\ companies \in SharedCompaniesInputs
    /\ deals \in SharedDealsInputs
    /\ result = <<>>
    /\ prevRun = <<>>
    /\ args = <<>>
    /\ ret = <<>>
    /\ ServicesInit

NewAuditShared ==
    /\ result # <<>>
    /\ prevRun' = <<[contacts |-> contacts, companies |-> companies,
                     deals |-> deals, result |-> result[1]]>>
    /\ contacts' \in SharedContactsInputs
    /\ companies' \in SharedCompaniesInputs
    /\ deals' \in SharedDealsInputs
    /\ result' = <<>>
    /\ UNCHANGED <<registry, args, ret>>
    /\ UNCHANGED serviceVars

\* the holder of the previous run's result appends to the impacts of one of
\* its signals: prevResult.signals[i].impacts.push(CallerImpact)
CallerPushImpact ==
    /\ prevRun # <<>>
    /\ prevRun[1].result.status = "returned"
    /\ \E i \in 1..Len(prevRun[1].result.signals) :
          LET k == prevRun[1].result.signals[i].key
          IN  /\ registry[k].impacts = SIGNAL_REGISTRY[k].impacts
              /\ registry' = [registry EXCEPT ![k].impacts = Append(@, CallerImpact)]
    /\ prevRun' = <<[prevRun[1] EXCEPT !.result = AliasImpacts(@, registry')]>>
    /\ result' = IF result = <<>> THEN <<>>
                 ELSE <<AliasImpacts(result[1], registry')>>
    /\ UNCHANGED <<contacts, companies, deals, args, ret>>
    /\ UNCHANGED serviceVars

NextShared == RunAudit \/ NewAuditShared \/ CallerPushImpact

SpecShared == InitShared /\ [][NextShared]_vars

---------------------------------------------------------------------------
(* Specifications of direct calls of the helper methods *)

\* the records of a collection passed to calculateMissingPct
ContactRecords == [email : PropertyValues, lifecyclestage : PropertyValues]

RECURSIVE SeqsUpTo(_, _)
SeqsUpTo(S, n) ==
    IF n = 0 THEN {<<>>}
    ELSE LET shorter == SeqsUpTo(S, n - 1)
         IN  shorter \cup {Append(q, x) : q \in shorter, x \in S}

InitMissingPct ==
    /\ registry = SIGNAL_REGISTRY
    /\ contacts = Arr(<<>>)
    /\ companies = Arr(<<>>)
    /\ deals = Arr(<<>>)
    /\ result = <<>>
    /\ prevRun = <<>>
    /\ args \in {<<records, property>> :
                    records \in {NullCollection}
                                \cup {Arr(q) : q \in SeqsUpTo(ContactRecords, MaxLen)},
                    property \in {"email", "lifecyclestage"}}
    /\ ret = <<>>
    /\ ServicesInit

CallCalculateMissingPct ==
    /\ ret = <<>>
    /\ ret' = <<calculateMissingPct(args[1], args[2])>>
    /\ UNCHANGED <<registry, contacts, companies, deals, result, prevRun, args>>
    /\ UNCHANGED serviceVars

NextMissingPct == CallCalculateMissingPct

SpecMissingPct == InitMissingPct /\ [][NextMissingPct]_vars

\* the percentages m / n * 100 of collections of up to MaxDen records
Percentages == UNION {{Rat(100 * m, n) : m \in 0..n} : n \in 1..MaxDen}

Criticalities == {"critical", "high", "medium"}

InitSeverity ==
    /\ registry = SIGNAL_REGISTRY
    /\ contacts = Arr(<<>>)
    /\ companies = Arr(<<>>)
    /\ deals = Arr(<<>>)
    /\ result = <<>>
    /\ prevRun = <<>>
    /\ args \in {<<pct, criticality>> : pct \in Percentages, criticality \in Criticalities}
    /\ ret = <<>>
    /\ ServicesInit

CallGetSeverity ==
    /\ ret = <<>>
    /\ ret' = <<getSeverity(args[1], args[2])>>
    /\ UNCHANGED <<registry, contacts, companies, deals, result, prevRun, args>>
    /\ UNCHANGED serviceVars

NextSeverity == CallGetSeverity

SpecSeverity == InitSeverity /\ [][NextSeverity]_vars

\* the signals passed directly to generatePrioritizedActions: the signal of
\* a registry key as processSignal builds it, or a signal of UnknownKey
DirectValue(severity) ==
    IF severity = "high" THEN Rat(50, 1)
    ELSE IF severity = "medium" THEN Rat(25, 1) ELSE Rat(0, 1)

DirectSignals ==
    {[key |-> SignalKeys[i], label |-> SIGNAL_REGISTRY[SignalKeys[i]].label,
      value |-> DirectValue(sev), severity |-> sev,
      criticality |-> SIGNAL_REGISTRY[SignalKeys[i]].criticality,
      impacts |-> SIGNAL_REGISTRY[SignalKeys[i]].impacts] :
        i \in 1..Len(SignalKeys), sev \in {"low", "medium", "high"}}
    \cup {[key |-> UnknownKey, label |-> "Stale Deals Pct",
           value |-> DirectValue(sev), severity |-> sev,
           criticality |-> "medium", impacts |-> <<"forecast_inaccuracy">>] :
            sev \in {"low", "medium", "high"}}

InitActions ==
    /\ registry = SIGNAL_REGISTRY
    /\ contacts = Arr(<<>>)
    /\ companies = Arr(<<>>)
    /\ deals = Arr(<<>>)
    /\ result = <<>>
    /\ prevRun = <<>>
    /\ args \in {<<signals>> : signals \in SeqsUpTo(DirectSignals, MaxSignals)}
    /\ ret = <<>>
    /\ ServicesInit

CallGeneratePrioritizedActions ==
    /\ ret = <<>>
    /\ ret' = <<generatePrioritizedActions(args[1])>>
    /\ args' = <<SignalsAfterPrioritize(args[1])>>
    /\ UNCHANGED <<registry, contacts, companies, deals, result, prevRun>>
    /\ UNCHANGED serviceVars

NextActions == CallGeneratePrioritizedActions

SpecActions == InitActions /\ [][NextActions]_vars

---------------------------------------------------------------------------
(* Specification of an audit run against a registry that is out of step    *)
(* with the keys of runAudit: it defines only some of the seven keys.      *)

\* the registry restricted to the keys K
SubRegistry(K) == [k \in K |-> SIGNAL_REGISTRY[k]]

InitRegistry ==
    /\ registry \in {SubRegistry(K) : K \in SUBSET (DOMAIN SIGNAL_REGISTRY)}
    /\ contacts \in PairContactsInputs
    /\ companies \in PairCompaniesInputs
    /\ deals \in PairDealsInputs
    /\ result = <<>>
    /\ prevRun = <<>>
    /\ args = <<>>
    /\ ret = <<>>
    /\ ServicesInit

NextRegistry == RunAudit

SpecRegistry == InitRegistry /\ [][NextRegistry]_vars

---------------------------------------------------------------------------
(* Specification of an audit run over deals whose stage and pipeline take  *)
(* every combination of values.                                            *)

\* deal records with close date and amount present
StageRecords ==
    [closedate : {"x"}, amount : {"x"},
     dealstage : PropertyValues, pipeline : PropertyValues]

InitStage ==
    /\ registry = SIGNAL_REGISTRY
    /\ contacts = Arr(<<>>)
    /\ companies = Arr(<<>>)
    /\ deals \in {Arr(q) : q \in SeqsUpTo(StageRecords, MaxLen)}
    /\ result = <<>>
    /\ prevRun = <<>>
    /\ args = <<>>
    /\ ret = <<>>
    /\ ServicesInit

NextStage == RunAudit

SpecStage == InitStage /\ [][NextStage]_vars

---------------------------------------------------------------------------
(* Agent service: the input built for the language model *)

\* AgentService.normalizeAudit
normalizeAudit(auditResult) ==
    [overall_health |-> auditResult.overall_health,
     signals |-> [i \in 1..Len(auditResult.signals) |->
                     LET s == auditResult.signals[i]
                     IN  [key |-> s.key,
                          value |-> MathRound(s.value),
                          criticality |-> s.criticality,
                          severity |-> s.severity,
                          impacts |-> s.impacts]],
     prioritized_actions |-> <<>>]

\* AgentService.buildAgentInput
buildAgentInput(auditResult) ==
    LET primary == SelectSeq(auditResult.prioritized_actions,
                             LAMBDA a : a.tier = "primary")
        sliced == SubSeq(primary, 1, Min(3, Len(primary)))
        topActions == [i \in 1..Len(sliced) |->
                          [priority |-> sliced[i].priority,
                           action |-> sliced[i].action,
                           why |-> sliced[i].why,
                           owner |-> sliced[i].owner_role]]
    IN  [overall_health |-> [score |-> auditResult.overall_health.score,
                             severity |-> auditResult.overall_health.severity],
         primary_risk_driver |-> auditResult.overall_health.primary_risk_driver,
         top_actions |-> topActions,
         context |-> "HubSpot CRM audit for executive audience (CRO level)"]

(* Specification of consecutive audits over datasets whose present values  *)
(* differ, each followed by the agent service building its input.          *)

\* the ways the present values of a dataset are chosen
ValueVariants == 0..2

\* the present value of record i under a variant
PresentValue(i, variant) ==
    IF variant = 0 THEN "x" ELSE IF (i + variant) % 2 = 0 THEN "x" ELSE "0"

\* a collection with the same missing values and other present values
Revalue(collection, variant) ==
    IF collection.kind = "null" THEN collection
    ELSE Arr([i \in 1..Len(collection.items) |->
                [f \in DOMAIN collection.items[i] |->
                    IF IsFalsy(collection.items[i][f]) THEN collection.items[i][f]
                    ELSE PresentValue(i, variant)]])

ValueDatasets ==
    {[contacts |-> Revalue(c, k), companies |-> Revalue(co, k), deals |-> Revalue(d, k)] :
        c \in SharedContactsInputs, co \in SharedCompaniesInputs,
        d \in SharedDealsInputs, k \in ValueVariants}

InitValues ==
    /\ registry = SIGNAL_REGISTRY
    /\ \E ds \in ValueDatasets :
          /\ contacts = ds.contacts
          /\ companies = ds.companies
          /\ deals = ds.deals
    /\ result = <<>>
    /\ prevRun = <<>>
    /\ args = <<>>
    /\ ret = <<>>
    /\ ServicesInit

\* runExecutiveAgent of agentService.js, step 1
NormalizeAudit ==
    /\ result # <<>>
    /\ result[1].status = "returned"
    /\ agentInput = <<>>
    /\ agentInput' = <<[by |-> "normalizeAudit", input |-> normalizeAudit(result[1])]>>
    /\ UNCHANGED <<engineVars, fetchVars, authVars, routeVars>>

\* runExecutiveAgent of the minimal-input agent service, step 1
BuildAgentInput ==
    /\ result # <<>>
    /\ result[1].status = "returned"
    /\ agentInput = <<>>
    /\ agentInput' = <<[by |-> "buildAgentInput", input |-> buildAgentInput(result[1])]>>
    /\ UNCHANGED <<engineVars, fetchVars, authVars, routeVars>>

NewAuditValues ==
    /\ agentInput # <<>>
    /\ prevRun' = <<[contacts |-> contacts, companies |-> companies,
                     deals |-> deals, result |-> result[1],
                     agentInput |-> agentInput[1]]>>
    /\ \E ds \in ValueDatasets :
          /\ contacts' = ds.contacts
          /\ companies' = ds.companies
          /\ deals' = ds.deals
    /\ result' = <<>>
    /\ agentInput' = <<>>
    /\ UNCHANGED <<registry, args, ret, routeVars, fetchVars, authVars>>

NextValues == RunAudit \/ NormalizeAudit \/ BuildAgentInput \/ NewAuditValues

SpecValues == InitValues /\ [][NextValues]_vars

---------------------------------------------------------------------------
(* Agent service: output contract, and the audit routes that call it *)

\* most chunks of one streamed model answer
MaxChunks == 4

\* values of the properties of a model output: a property a partial object
\* does not carry, undefined, a string, an array
Absent == [kind |-> "absent"]
Undefined == [kind |-> "undefined"]
Str(v) == [kind |-> "string", value |-> v]

\* !!v for a property of a model output (output[k] of an absent k is undefined)
IsTruthyValue(v) ==
    IF v.kind = "string" THEN v.value # "" ELSE v.kind = "array"

requiredKeys ==
    <<"executive_summary", "top_risks", "recommended_focus_areas", "confidence_level">>

\* the values AuditOutputSchema allows for a key, and undefined
FieldValues(k) ==
    IF k = "executive_summary" THEN {Undefined, Str(""), Str("summary")}
    ELSE IF k = "confidence_level" THEN {Undefined, Str("high"), Str("low")}
    ELSE {Undefined, Arr(<<>>), Arr(<<"item">>)}

KeySet == {requiredKeys[i] : i \in 1..Len(requiredKeys)}

\* the objects chain.invoke can resolve to
Outputs == {o \in [KeySet -> UNION {FieldValues(k) : k \in KeySet}] :
               \A k \in KeySet : o[k] \in FieldValues(k)}

\* let accumulated = {}
EmptyObject == [k \in KeySet |-> Absent]

\* the chunks of a stream: partial objects carrying at most one key
Chunks ==
    {EmptyObject}
    \cup UNION {{[EmptyObject EXCEPT ![k] = v] : v \in FieldValues(k)} : k \in KeySet}

\* { ...accumulated, ...chunk }
Spread(acc, chunk) ==
    [k \in KeySet |-> IF chunk[k] # Absent THEN chunk[k] ELSE acc[k]]

\* missing.join(", ")
RECURSIVE Join(_)
Join(keys) ==
    IF Len(keys) = 0 THEN ""
    ELSE IF Len(keys) = 1 THEN keys[1]
    ELSE keys[1] \o ", " \o Join(Tail(keys))

IsNonEmptyArray(v) == v.kind = "array" /\ Len(v.items) # 0

\* a faulty variant: only the presence of the keys is checked
validateOutput_KeysOnly(o) ==
    LET missing == SelectSeq(requiredKeys, LAMBDA k : ~IsTruthyValue(o[k]))
    IN  IF Len(missing) > 0
        THEN [status |-> "threw",
              message |-> "AI Contract Violation: Missing keys [" \o Join(missing) \o "]"]
        ELSE [status |-> "returned", value |-> o]

\* AgentService.validateOutput: the object returned, or the error thrown
validateOutput(o) ==
    LET missing == SelectSeq(requiredKeys, LAMBDA k : ~IsTruthyValue(o[k]))
    IN  IF Len(missing) > 0
        THEN [status |-> "threw",
              message |-> "AI Contract Violation: Missing keys [" \o Join(missing) \o "]"]
        ELSE IF ~IsNonEmptyArray(o.top_risks)
        THEN [status |-> "threw",
              message |-> "AI Contract Violation: top_risks must be a non-empty array"]
        ELSE IF ~IsNonEmptyArray(o.recommended_focus_areas)
        THEN [status |-> "threw",
              message |-> "AI Contract Violation: recommended_focus_areas must be a non-empty array"]
        ELSE [status |-> "returned", value |-> o]

\* the collections the three fetches of a request resolve to
RouteDatasets ==
    {[contacts |-> c, companies |-> co, deals |-> d] :
        c \in SharedContactsInputs, co \in SharedCompaniesInputs, d \in SharedDealsInputs}

Streaming == route = "stream"

\* a faulty variant: the catch block writes the error event and leaves the
\* stream open
Catch_NoEnd ==
    /\ routePc' = "done"
    /\ response' = IF Streaming THEN response
                   ELSE <<[status |-> 500, error |-> "Audit failed"]>>
    /\ events' = IF Streaming THEN Append(events, [status |-> "error", error |-> "Audit failed"])
                 ELSE events
    /\ ended' = FALSE

\* what the catch block of the handler does
Catch ==
    /\ routePc' = "done"
    /\ response' = IF Streaming THEN response
                   ELSE <<[status |-> 500, error |-> "Audit failed"]>>
    /\ events' = IF Streaming THEN Append(events, [status |-> "error", error |-> "Audit failed"])
                 ELSE events
    /\ ended' = Streaming

\* the accumulated object of the streaming loop
Accumulated == IF accumulated = <<>> THEN EmptyObject ELSE accumulated[1]

\* the handler after runExecutiveAgent has validated its output
Finish(outcome) ==
    IF outcome.status = "threw" THEN Catch
    ELSE /\ routePc' = "done"
         /\ response' = IF Streaming THEN response
                        ELSE <<[status |-> 200, audit_facts |-> result[1],
                                ai_interpretation |-> outcome.value]>>
         /\ events' = IF Streaming
                      THEN Append(events, [status |-> "complete",
                                           ai_interpretation |-> outcome.value])
                      ELSE events
         /\ ended' = Streaming

InitRoute ==
    /\ registry = SIGNAL_REGISTRY
    /\ contacts = Arr(<<>>)
    /\ companies = Arr(<<>>)
    /\ deals = Arr(<<>>)
    /\ result = <<>>
    /\ prevRun = <<>>
    /\ args = <<>>
    /\ ret = <<>>
    /\ agentInput = <<>>
    /\ route \in {"audit", "stream"}
    /\ routePc = "start"
    /\ accumulated = <<>>
    /\ output = <<>>
    /\ aiOutput = <<>>
    /\ response = <<>>
    /\ events = <<>>
    /\ ended = FALSE
    /\ FetchIdle
    /\ AuthIdle

\* the token check has passed: the handler starts the three fetches
StartFetch ==
    /\ routePc = "start"
    /\ routePc' = "fetching"
    /\ events' = IF Streaming THEN Append(events, [status |-> "fetching"]) ELSE events
    /\ UNCHANGED <<engineVars, fetchVars, authVars, agentInput, route, accumulated, output, aiOutput,
                   response, ended>>

\* one of the fetches rejects
FetchFails ==
    /\ routePc = "fetching"
    /\ Catch
    /\ UNCHANGED <<engineVars, fetchVars, authVars, agentInput, route, accumulated, output, aiOutput>>

\* the fetches resolve: the handler runs the audit, and starts the agent
FetchResolves ==
    /\ routePc = "fetching"
    /\ \E ds \in RouteDatasets :
          /\ contacts' = ds.contacts
          /\ companies' = ds.companies
          /\ deals' = ds.deals
    /\ result' = <<runAudit(registry, contacts', companies', deals')>>
    /\ IF result'[1].status = "threw"
       THEN /\ routePc' = "done"
            /\ response' = IF Streaming THEN response
                           ELSE <<[status |-> 500, error |-> "Audit failed"]>>
            /\ events' = IF Streaming
                         THEN events \o <<[status |-> "analyzing"],
                                          [status |-> "error", error |-> "Audit failed"]>>
                         ELSE events
            /\ ended' = Streaming
            /\ agentInput' = agentInput
       ELSE /\ routePc' = IF Streaming THEN "streaming" ELSE "invoking"
            /\ events' = IF Streaming
                         THEN events \o <<[status |-> "analyzing"],
                                          [status |-> "facts", audit_facts |-> result'[1]],
                                          [status |-> "generating"]>>
                         ELSE events
            /\ agentInput' = <<[by |-> "normalizeAudit",
                                input |-> normalizeAudit(result'[1])]>>
            /\ UNCHANGED <<response, ended>>
    /\ UNCHANGED <<registry, prevRun, args, ret, route, accumulated, output, aiOutput,
                   fetchVars, authVars>>

\* chain.invoke rejects
InvokeThrows ==
    /\ routePc = "invoking"
    /\ aiOutput' = <<[status |-> "threw", message |-> "model call failed"]>>
    /\ Catch
    /\ UNCHANGED <<engineVars, fetchVars, authVars, agentInput, route, accumulated, output>>

\* chain.invoke resolves: the output is validated and the response sent
InvokeResolves ==
    /\ routePc = "invoking"
    /\ \E o \in Outputs : output' = <<o>>
    /\ aiOutput' = <<validateOutput(output'[1])>>
    /\ Finish(aiOutput'[1])
    /\ UNCHANGED <<engineVars, fetchVars, authVars, agentInput, route, accumulated>>

\* the stream yields a chunk: it is accumulated and passed to onStream
StreamChunk ==
    /\ routePc = "streaming"
    /\ Len(SelectSeq(events, LAMBDA e : e.status = "streaming")) < MaxChunks
    /\ \E chunk \in Chunks : accumulated' = <<Spread(Accumulated, chunk)>>
    /\ events' = Append(events, [status |-> "streaming"])
    /\ UNCHANGED <<engineVars, fetchVars, authVars, agentInput, route, routePc, output, aiOutput,
                   response, ended>>

\* chain.stream or the iteration of the stream rejects
StreamThrows ==
    /\ routePc = "streaming"
    /\ aiOutput' = <<[status |-> "threw", message |-> "model call failed"]>>
    /\ Catch
    /\ UNCHANGED <<engineVars, fetchVars, authVars, agentInput, route, accumulated, output>>

\* the stream is exhausted: the accumulated output is validated
StreamEnds ==
    /\ routePc = "streaming"
    /\ output' = <<Accumulated>>
    /\ aiOutput' = <<validateOutput(output'[1])>>
    /\ Finish(aiOutput'[1])
    /\ UNCHANGED <<engineVars, fetchVars, authVars, agentInput, route, accumulated>>

NextRoute ==
    \/ StartFetch \/ FetchFails \/ FetchResolves
    \/ InvokeThrows \/ InvokeResolves
    \/ StreamChunk \/ StreamThrows \/ StreamEnds

SpecRoute == InitRoute /\ [][NextRoute]_vars

---------------------------------------------------------------------------
(* HubSpotClient.fetchAll: cursor pagination *)

\* records per page (the limit of 100 of the request, scaled down)
PageLimit == 3
\* largest maxRecords passed to fetchAll
MaxRecordsArg == 4
\* most pages one call is served when pages with a cursor may be empty
MaxRequests == MaxRecordsArg + 2

\* no engine under audit
EngineIdle ==
    /\ registry = SIGNAL_REGISTRY
    /\ contacts = Arr(<<>>)
    /\ companies = Arr(<<>>)
    /\ deals = Arr(<<>>)
    /\ result = <<>>
    /\ prevRun = <<>>
    /\ args = <<>>
    /\ ret = <<>>

\* the n records of the p-th page
Page(n, p) == [i \in 1..n |-> [page |-> p, index |-> i]]

\* a faulty variant: the catch block returns what was collected
fetchFailure_Partial(type, collected) ==
    [status |-> "returned", value |-> collected]

\* the catch block of fetchAll
fetchFailure(type, collected) ==
    [status |-> "threw", message |-> "Failed to fetch " \o type]

\* one pass of the loop body over a response of n records, with or without
\* paging.next.after
LoopBody(n, hasNext) ==
    LET results == Page(n, Len(pages) + 1)
        collected == allResults \o results
    IN  /\ pages' = Append(pages, [results |-> results, next |-> hasNext])
        /\ allResults' = collected
        /\ IF Len(collected) >= maxRecords
           THEN /\ after' = after
                /\ fetchPc' = "done"
                /\ fetchRet' = <<[status |-> "returned", value |-> collected]>>
           ELSE IF hasNext
           THEN /\ after' = <<ToString(Len(collected))>>
                /\ fetchPc' = "requesting"
                /\ fetchRet' = fetchRet
           ELSE /\ after' = <<>>
                /\ fetchPc' = "done"
                /\ fetchRet' = <<[status |-> "returned", value |-> collected]>>

InitFetch ==
    /\ EngineIdle
    /\ AgentIdle
    /\ AuthIdle
    /\ objectType \in {"contacts", "companies", "deals"}
    /\ maxRecords \in 0..MaxRecordsArg
    /\ allResults = <<>>
    /\ after = <<>>
    /\ pages = <<>>
    /\ fetchPc = "requesting"
    /\ fetchRet = <<>>

\* this.client.get rejects
RequestFails ==
    /\ fetchPc = "requesting"
    /\ fetchPc' = "done"
    /\ fetchRet' = <<fetchFailure(objectType, allResults)>>
    /\ UNCHANGED <<engineVars, agentVars, authVars, objectType, maxRecords,
                   allResults, after, pages>>

\* this.client.get resolves to a page: a page with a cursor has a record
PageArrives ==
    /\ fetchPc = "requesting"
    /\ \E n \in 0..PageLimit, hasNext \in BOOLEAN :
          /\ hasNext => n >= 1
          /\ LoopBody(n, hasNext)
    /\ UNCHANGED <<engineVars, agentVars, authVars, objectType, maxRecords>>

\* this.client.get resolves to a page with a cursor and no record
EmptyPageArrives ==
    /\ fetchPc = "requesting"
    /\ Len(pages) < MaxRequests
    /\ LoopBody(0, TRUE)
    /\ UNCHANGED <<engineVars, agentVars, authVars, objectType, maxRecords>>

NextFetch == RequestFails \/ PageArrives \/ EmptyPageArrives

SpecFetch == InitFetch /\ [][NextFetch]_vars

\* the server keeps to one record at least on every page with a cursor, and
\* every request is answered
NextFetchPaged == RequestFails \/ PageArrives

SpecFetchPaged ==
    InitFetch /\ [][NextFetchPaged]_vars /\ WF_vars(NextFetchPaged)

---------------------------------------------------------------------------
(* TokenStore: the token file *)

Hubs == {"hubA", "hubB"}

\* let tokens = {}
EmptyTokens == [entries |-> [h \in Hubs |-> <<>>], latest_hub_id |-> <<>>]

\* a faulty variant: the file is not read before it is written
saveToken_Fresh(file, hubId, tokenData, nowT) ==
    <<[EmptyTokens EXCEPT
          !.entries[hubId] = <<[access_token |-> tokenData.access_token,
                                refresh_token |-> tokenData.refresh_token,
                                expires_in |-> tokenData.expires_in,
                                expires_at |-> tokenData.expires_at,
                                updatedAt |-> nowT]>>,
          !.latest_hub_id = <<hubId>>]>>

\* TokenStore.saveToken: the content of the file after the call
saveToken(file, hubId, tokenData, nowT) ==
    LET tokens == IF file = <<>> THEN EmptyTokens ELSE file[1]
    IN  <<[tokens EXCEPT
              !.entries[hubId] = <<[access_token |-> tokenData.access_token,
                                    refresh_token |-> tokenData.refresh_token,
                                    expires_in |-> tokenData.expires_in,
                                    expires_at |-> tokenData.expires_at,
                                    updatedAt |-> nowT]>>,
              !.latest_hub_id = <<hubId>>]>>

\* TokenStore.getToken: <<>> for null, hubId <<>> for a call without hub id
getToken(file, hubId) ==
    IF file = <<>> THEN <<>>
    ELSE LET tokens == file[1]
             id == IF hubId = <<>> THEN tokens.latest_hub_id ELSE hubId
         IN  IF id # <<>> /\ tokens.entries[id[1]] # <<>>
             THEN <<[hub_id |-> id[1], token |-> tokens.entries[id[1]][1]]>>
             ELSE <<>>

\* the token data built from a response of the token endpoint
\* (refresh_token and expires_at are <<>> when undefined)
TokenData(data, nowT) ==
    [access_token |-> data.access_token,
     refresh_token |-> data.refresh_token,
     expires_in |-> data.expires_in,
     expires_at |-> <<nowT + data.expires_in>>]

---------------------------------------------------------------------------
(* OAuth router: /install and /oauth/callback *)

\* latest time of the clock
MaxTime == 3
\* most states /install issues
MaxInstalls == 1
\* most requests /oauth/callback receives
MaxCallbacks == 2

\* ten minutes
STATE_EXPIRY_MS == 2

\* the lifetime of an access token: thirty minutes
ExpiresIn == 6

\* crypto.randomBytes(16).toString("hex"): a value no earlier call returned
StateName(n) == "state" \o ToString(n)

\* a state parameter /install never issued
ForgedState == "forged"

\* the entry of a state in the Map: <<>> when the Map does not have it
StateData(pending, state) ==
    IF \E e \in pending : e.state = state
    THEN <<CHOOSE e \in pending : e.state = state>>
    ELSE <<>>

IsExpired(createdAt, nowT) == nowT - createdAt > STATE_EXPIRY_MS

\* /install: the Map after the new state is stored and the expired ones removed
install(pending, state, nowT) ==
    LET stored == {e \in pending : e.state # state}
                  \cup {[state |-> state, createdAt |-> nowT]}
    IN  {e \in stored : ~IsExpired(e.createdAt, nowT)}

\* a faulty variant: the state is consumed after the code check
callbackSync_CodeFirst(pending, nowT, state, code) ==
    IF state = <<>> \/ StateData(pending, state[1]) = <<>>
    THEN [pendingStates |-> pending, status |-> "403"]
    ELSE LET stateData == StateData(pending, state[1])[1]
         IN  IF IsExpired(stateData.createdAt, nowT)
             THEN [pendingStates |-> pending \ {stateData}, status |-> "403"]
             ELSE IF code = <<>>
             THEN [pendingStates |-> pending, status |-> "400"]
             ELSE [pendingStates |-> pending \ {stateData}, status |-> "exchange"]

\* a faulty variant: a valid state stays in the Map
callbackSync_NoConsume(pending, nowT, state, code) ==
    IF state = <<>> \/ StateData(pending, state[1]) = <<>>
    THEN [pendingStates |-> pending, status |-> "403"]
    ELSE LET stateData == StateData(pending, state[1])[1]
         IN  IF IsExpired(stateData.createdAt, nowT)
             THEN [pendingStates |-> pending \ {stateData}, status |-> "403"]
             ELSE IF code = <<>>
             THEN [pendingStates |-> pending, status |-> "400"]
             ELSE [pendingStates |-> pending, status |-> "exchange"]

\* /oauth/callback up to its await: the Map afterwards, and the answer sent
\* ("403", "400") or "exchange" when the token request was sent
callbackSync(pending, nowT, state, code) ==
    IF state = <<>> \/ StateData(pending, state[1]) = <<>>
    THEN [pendingStates |-> pending, status |-> "403"]
    ELSE LET stateData == StateData(pending, state[1])[1]
         IN  IF IsExpired(stateData.createdAt, nowT)
             THEN [pendingStates |-> pending \ {stateData}, status |-> "403"]
             ELSE IF code = <<>>
             THEN [pendingStates |-> pending \ {stateData}, status |-> "400"]
             ELSE [pendingStates |-> pending \ {stateData}, status |-> "exchange"]

InitOAuth ==
    /\ EngineIdle
    /\ AgentIdle
    /\ FetchIdle
    /\ tokenFile = <<>>
    /\ now = 0
    /\ OAuthIdle
    /\ TokenIdle
    /\ StoreIdle

\* time passes
Tick ==
    /\ now < MaxTime
    /\ now' = now + 1
    /\ UNCHANGED <<engineVars, agentVars, fetchVars, tokenFile, oauthVars,
                   tokenVars, storeVars>>

\* GET /install
Install ==
    /\ Cardinality(installs) < MaxInstalls
    /\ LET state == StateName(Cardinality(installs) + 1)
       IN  /\ pendingStates' = install(pendingStates, state, now)
           /\ installs' = installs \cup {[state |-> state, createdAt |-> now]}
    /\ UNCHANGED <<engineVars, agentVars, fetchVars, tokenFile, now, callbacks,
                   tokenVars, storeVars>>

\* GET /oauth/callback up to the token request, for any state and code a
\* client may send: none, a forged state, a state /install issued
Callback ==
    /\ Len(callbacks) < MaxCallbacks
    /\ \E state \in {<<>>, <<ForgedState>>} \cup {<<e.state>> : e \in installs},
          code \in {<<>>, <<"code">>} :
          LET r == callbackSync(pendingStates, now, state, code)
          IN  /\ pendingStates' = r.pendingStates
              /\ callbacks' = Append(callbacks,
                                     [state |-> state, code |-> code, at |-> now,
                                      status |-> r.status])
    /\ UNCHANGED <<engineVars, agentVars, fetchVars, tokenFile, now, installs,
                   tokenVars, storeVars>>

\* the token request of a callback resolves: the token is saved, answer 200
ExchangeResolves ==
    /\ \E i \in 1..Len(callbacks), hub \in Hubs :
          /\ callbacks[i].status = "exchange"
          /\ tokenFile' = saveToken(tokenFile, hub,
                                    TokenData([access_token |-> "access" \o ToString(i),
                                               refresh_token |-> <<"refresh" \o ToString(i)>>,
                                               expires_in |-> ExpiresIn], now),
                                    now)
          /\ callbacks' = [callbacks EXCEPT ![i].status = "200"]
    /\ UNCHANGED <<engineVars, agentVars, fetchVars, now, pendingStates, installs,
                   tokenVars, storeVars>>

\* the token request of a callback rejects: answer 500
ExchangeRejects ==
    /\ \E i \in 1..Len(callbacks) :
          /\ callbacks[i].status = "exchange"
          /\ callbacks' = [callbacks EXCEPT ![i].status = "500"]
    /\ UNCHANGED <<engineVars, agentVars, fetchVars, tokenFile, now, pendingStates,
                   installs, tokenVars, storeVars>>

NextOAuth == Tick \/ Install \/ Callback \/ ExchangeResolves \/ ExchangeRejects

SpecOAuth == InitOAuth /\ [][NextOAuth]_vars

---------------------------------------------------------------------------
(* audit routes: getValidToken *)

\* 5 * 60 * 1000
RefreshBuffer == 1

\* the entries tokens.json can hold for a hub: refresh_token and expires_at
\* are what the token endpoint sent, and each may be missing
StoredTokens ==
    {[access_token |-> "stored", refresh_token |-> r, expires_in |-> ExpiresIn,
      expires_at |-> e, updatedAt |-> 0] :
        r \in {<<>>, <<"refresh0">>},
        e \in {<<>>} \cup {<<t>> : t \in 0..(MaxTime + RefreshBuffer + 1)}}

\* what the token endpoint answers to a refresh
RefreshResponse ==
    [access_token |-> "refreshed", refresh_token |-> <<"refresh1">>,
     expires_in |-> ExpiresIn]

\* stored.expires_at && (Date.now() > stored.expires_at - 5 * 60 * 1000)
needsRefresh(stored, nowT) ==
    /\ stored.expires_at # <<>>
    /\ nowT > stored.expires_at[1] - RefreshBuffer

InitToken ==
    /\ EngineIdle
    /\ AgentIdle
    /\ FetchIdle
    /\ OAuthIdle
    /\ TokenIdle
    /\ StoreIdle
    /\ now = 0
    /\ tokenFile \in {<<>>}
                     \cup {<<[EmptyTokens EXCEPT !.entries["hubA"] = <<t>>,
                                                 !.latest_hub_id = <<"hubA">>]>> :
                              t \in StoredTokens}

\* getValidToken(hub_id), up to its return or to the request refreshToken sends
GetValidToken ==
    /\ tokenPc = "idle"
    /\ \E id \in {<<>>} \cup {<<h>> : h \in Hubs} :
          LET stored == getToken(tokenFile, id)
          IN  /\ hub_id' = id
              /\ IF id = <<>>
                 THEN /\ tokenPc' = "done"
                      /\ tokenRet' = <<[status |-> "400", error |-> "Missing hub_id"]>>
                      /\ returnedAt' = <<now>>
                 ELSE IF stored = <<>>
                 THEN /\ tokenPc' = "done"
                      /\ tokenRet' = <<[status |-> "401",
                                        error |-> "No stored token found. Please reconnect HubSpot."]>>
                      /\ returnedAt' = <<now>>
                 ELSE IF needsRefresh(stored[1].token, now)
                         /\ stored[1].token.refresh_token # <<>>
                 THEN /\ tokenPc' = "refreshing"
                      /\ UNCHANGED <<tokenRet, returnedAt>>
                 ELSE /\ tokenPc' = "done"
                      /\ tokenRet' = <<[status |-> "ok",
                                        access_token |-> stored[1].token.access_token,
                                        hub_id |-> id[1]]>>
                      /\ returnedAt' = <<now>>
    /\ UNCHANGED <<engineVars, agentVars, fetchVars, tokenFile, now, oauthVars,
                   storeVars>>

\* the request of refreshToken resolves: the new token is saved and returned
RefreshResolves ==
    /\ tokenPc = "refreshing"
    /\ LET newTokenData == TokenData(RefreshResponse, now)
       IN  /\ tokenFile' = saveToken(tokenFile, hub_id[1], newTokenData, now)
           /\ tokenRet' = <<[status |-> "ok",
                             access_token |-> newTokenData.access_token,
                             hub_id |-> hub_id[1]]>>
    /\ tokenPc' = "done"
    /\ returnedAt' = <<now>>
    /\ UNCHANGED <<engineVars, agentVars, fetchVars, now, oauthVars, hub_id,
                   storeVars>>

\* the request of refreshToken rejects
RefreshRejects ==
    /\ tokenPc = "refreshing"
    /\ tokenPc' = "done"
    /\ tokenRet' = <<[status |-> "401",
                      error |-> "Session expired. Please reconnect HubSpot."]>>
    /\ returnedAt' = <<now>>
    /\ UNCHANGED <<engineVars, agentVars, fetchVars, tokenFile, now, oauthVars, hub_id,
                   storeVars>>

NextToken == Tick \/ GetValidToken \/ RefreshResolves \/ RefreshRejects

SpecToken == InitToken /\ [][NextToken]_vars

---------------------------------------------------------------------------
(* TokenStore: concurrent calls of saveToken and refreshToken *)

\* most calls of saveToken and refreshToken
MaxCalls == 4

\* the token data the n-th call writes
CallTokenData(n, nowT) ==
    TokenData([access_token |-> "access" \o ToString(n),
               refresh_token |-> <<"refresh" \o ToString(n)>>,
               expires_in |-> ExpiresIn], nowT)

\* the entry saveToken leaves in the file: tokenData with its updatedAt
SavedEntry(file, hubId) == file[1].entries[hubId][1]

InitStore ==
    /\ EngineIdle
    /\ AgentIdle
    /\ FetchIdle
    /\ OAuthIdle
    /\ TokenIdle
    /\ StoreIdle
    /\ tokenFile = <<>>
    /\ now = 0

\* saveToken(hubId, tokenData): read, modify and write in one step
SaveToken ==
    /\ Len(storeCalls) < MaxCalls
    /\ \E hubId \in Hubs :
          LET n == Len(storeCalls) + 1
              written == saveToken(tokenFile, hubId, CallTokenData(n, now), now)
          IN  /\ tokenFile' = written
              /\ storeCalls' = Append(storeCalls,
                                      [op |-> "saveToken", hubId |-> hubId,
                                       pc |-> "done"])
              /\ saved' = Append(saved, [call |-> n, hubId |-> hubId,
                                         token |-> SavedEntry(written, hubId)])
    /\ UNCHANGED <<engineVars, agentVars, fetchVars, now, oauthVars, tokenVars>>

\* refreshToken(hubId) up to its request: getToken, the throw without a
\* refresh token
RefreshToken ==
    /\ Len(storeCalls) < MaxCalls
    /\ \E hubId \in Hubs :
          LET stored == getToken(tokenFile, <<hubId>>)
          IN  storeCalls' = Append(storeCalls,
                  [op |-> "refreshToken", hubId |-> hubId,
                   pc |-> IF stored = <<>> \/ stored[1].token.refresh_token = <<>>
                          THEN "threw" ELSE "posting"])
    /\ UNCHANGED <<engineVars, agentVars, fetchVars, tokenFile, now, oauthVars,
                   tokenVars, saved>>

\* the request of a refreshToken call resolves: saveToken(hubId, newTokenData)
PostResolves ==
    /\ \E n \in 1..Len(storeCalls) :
          LET hubId == storeCalls[n].hubId
              written == saveToken(tokenFile, hubId, CallTokenData(n, now), now)
          IN  /\ storeCalls[n].pc = "posting"
              /\ tokenFile' = written
              /\ storeCalls' = [storeCalls EXCEPT ![n].pc = "done"]
              /\ saved' = Append(saved, [call |-> n, hubId |-> hubId,
                                         token |-> SavedEntry(written, hubId)])
    /\ UNCHANGED <<engineVars, agentVars, fetchVars, now, oauthVars, tokenVars>>

\* the request of a refreshToken call rejects
PostRejects ==
    /\ \E n \in 1..Len(storeCalls) :
          /\ storeCalls[n].pc = "posting"
          /\ storeCalls' = [storeCalls EXCEPT ![n].pc = "threw"]
    /\ UNCHANGED <<engineVars, agentVars, fetchVars, tokenFile, now, oauthVars,
                   tokenVars, saved>>

NextStore == SaveToken \/ RefreshToken \/ PostResolves \/ PostRejects

SpecStore == InitStore /\ [][NextStore]_vars

---------------------------------------------------------------------------
(* Properties *)

Returned == result # <<>> /\ result[1].status = "returned"

Health == result[1].overall_health

Signals == result[1].signals

Actions == result[1].prioritized_actions

SeverityRank(severity) ==
    IF severity = "high" THEN 2 ELSE IF severity = "medium" THEN 1 ELSE 0

\* the penalty sum of section 4.4 over a signals list
RECURSIVE PenaltySum(_)
PenaltySum(signals) ==
    IF signals = <<>> THEN 0
    ELSE LET s == Head(signals)
             base == CASE s.severity = "high" -> 30
                       [] s.severity = "medium" -> 15
                       [] s.severity = "low" -> 5
         IN  base * (IF s.criticality = "critical" THEN 2 ELSE 1)
             + PenaltySum(Tail(signals))

AllHigh(signals) == \A i \in 1..Len(signals) : signals[i].severity = "high"

NumWith(signals, severity) ==
    Cardinality({i \in 1..Len(signals) : signals[i].severity = severity})

NonNullArrays ==
    contacts.kind = "array" /\ companies.kind = "array" /\ deals.kind = "array"

\* C1: for non-null array collections runAudit returns, and the score is 0
\* when the deals collection is empty or every computed signal is high, and
\* max(10, 100 - totalPenalty) otherwise, totalPenalty being the sum over the
\* signals of 30 / 15 / 5 for high / medium / low, doubled for critical ones.
C1_ScoreFormula ==
    (result # <<>> /\ NonNullArrays) =>
        /\ Returned
        /\ Health.score =
              IF Len(deals.items) = 0 \/ AllHigh(Signals) THEN 0
              ELSE Max(10, 100 - PenaltySum(Signals))

C1_Witness ==
    /\ Returned
    /\ Len(deals.items) > 0
    /\ ~AllHigh(Signals)
    /\ NumWith(Signals, "high") > 0
    /\ NumWith(Signals, "medium") > 0
    /\ PenaltySum(Signals) < 90
    /\ Health.score = 100 - PenaltySum(Signals)

\* C2: the score returned by runAudit is an integer between 0 and 100.
C2_ScoreRange == Returned => Health.score \in 0..100

C2_Witness ==
    /\ Returned
    /\ PenaltySum(Signals) > 100
    /\ ~AllHigh(Signals)
    /\ Health.score = 10

\* C3: with an empty deals collection the score is 0 whatever the contacts
\* and companies are, also when every signal is low.
C3_EmptyDealsScoreZero ==
    (result # <<>> /\ deals = Arr(<<>>)) =>
        /\ (contacts.kind = "array" /\ companies.kind = "array") => Returned
        /\ Returned => Health.score = 0

C3_Witness ==
    /\ Returned
    /\ deals = Arr(<<>>) /\ contacts = Arr(<<>>) /\ companies = Arr(<<>>)
    /\ Len(Signals) = 7
    /\ NumWith(Signals, "low") = 7
    /\ PenaltySum(Signals) = 50
    /\ Health.score = 0

\* both the previous and the current run have returned
BothReturned ==
    /\ prevRun # <<>> /\ prevRun[1].result.status = "returned"
    /\ Returned

\* every signal of the current run is at least as severe as in the previous run
AtLeastAsSevere ==
    /\ Len(Signals) = Len(prevRun[1].result.signals)
    /\ \A i \in 1..Len(Signals) :
          /\ Signals[i].key = prevRun[1].result.signals[i].key
          /\ SeverityRank(Signals[i].severity)
                >= SeverityRank(prevRun[1].result.signals[i].severity)

\* C4 as stated: whenever every signal of run B is at least as severe as in
\* run A, the score of B is at most the score of A.
C4_Original_Monotone ==
    (BothReturned /\ AtLeastAsSevere) =>
        Health.score <= prevRun[1].result.overall_health.score

\* C4 as amended: whenever run A has at least one deal and every signal of
\* run B is at least as severe as in run A, the score of B is at most the
\* score of A.
C4_MonotoneWithDeals ==
    (BothReturned /\ AtLeastAsSevere /\ Len(prevRun[1].deals.items) > 0) =>
        Health.score <= prevRun[1].result.overall_health.score

C4_Witness ==
    /\ BothReturned
    /\ AtLeastAsSevere
    /\ Len(prevRun[1].deals.items) > 0
    /\ Len(deals.items) > 0
    /\ \E i \in 1..Len(Signals) :
          SeverityRank(Signals[i].severity)
             > SeverityRank(prevRun[1].result.signals[i].severity)
    /\ Health.score < prevRun[1].result.overall_health.score
    /\ Health.score > 10

\* the threshold table of section 4.2 without the criticality
GenericSeverity(pct) ==
    IF pct.num > 30 * pct.den THEN "high"
    ELSE IF pct.num > 10 * pct.den THEN "medium" ELSE "low"

\* C5: getSeverity is high above 30, medium above 10 up to 30 and low up to
\* 10 for every criticality, so critical never gives a lower severity than a
\* non-critical tier at the same percentage.
C5_SeverityThresholds ==
    ret # <<>> =>
        /\ ret[1] = GenericSeverity(args[1])
        /\ \A c \in Criticalities \ {"critical"} :
              SeverityRank(getSeverity(args[1], "critical"))
                 >= SeverityRank(getSeverity(args[1], c))

C5_Witness ==
    /\ ret # <<>>
    /\ args[1] = Rat(30, 1)
    /\ args[2] = "critical"
    /\ ret[1] = "medium"

\* the records of a collection whose value for the property is missing
MissingIndexes(items, property) ==
    {i \in 1..Len(items) : items[i][property] \in {JSNull, JSUndefined, ""}}

\* C6: calculateMissingPct is 0 for a null or empty collection and otherwise
\* 100 * m / n, m the records whose value is null, absent or the empty
\* string; the result lies between 0 and 100.
C6_MissingPct ==
    ret # <<>> =>
        /\ (args[1].kind = "null" \/ args[1] = Arr(<<>>)) => ret[1] = Rat(0, 1)
        /\ (args[1].kind = "array" /\ args[1] # Arr(<<>>)) =>
              ret[1].num * Len(args[1].items)
                 = 100 * Cardinality(MissingIndexes(args[1].items, args[2])) * ret[1].den
        /\ ret[1].den > 0
        /\ ret[1].num >= 0
        /\ ret[1].num <= 100 * ret[1].den

C6_Witness ==
    /\ ret # <<>>
    /\ args[1].kind = "array"
    /\ Len(args[1].items) = 2
    /\ args[1].items[1][args[2]] = ""
    /\ args[1].items[2][args[2]] = "x"
    /\ ret[1] = Rat(50, 1)

\* C7: runAudit does not throw when a collection is empty or null: such a
\* collection gives 0% for its signals, and empty or null deals give score 0.
C7_NeverThrows ==
    result # <<>> =>
        /\ Returned
        /\ (contacts.kind = "null" \/ contacts = Arr(<<>>)) =>
              \A i \in 1..Len(Signals) :
                 StartsWith(Signals[i].key, "contacts_") => Signals[i].value = Rat(0, 1)
        /\ (companies.kind = "null" \/ companies = Arr(<<>>)) =>
              \A i \in 1..Len(Signals) :
                 StartsWith(Signals[i].key, "companies_") => Signals[i].value = Rat(0, 1)
        /\ (deals.kind = "null" \/ deals = Arr(<<>>)) =>
              /\ \A i \in 1..Len(Signals) :
                    StartsWith(Signals[i].key, "deals_") => Signals[i].value = Rat(0, 1)
              /\ Health.score = 0

NumCriticalHigh(signals) ==
    Cardinality({i \in 1..Len(signals) :
                    signals[i].criticality = "critical" /\ signals[i].severity = "high"})

\* C8: the overall severity is high iff two signals are high or a critical
\* signal is high; otherwise medium iff two signals are medium; otherwise low.
C8_OverallSeverity ==
    Returned =>
        Health.severity =
            IF NumWith(Signals, "high") >= 2 \/ NumCriticalHigh(Signals) >= 1 THEN "high"
            ELSE IF NumWith(Signals, "medium") >= 2 THEN "medium"
            ELSE "low"

C8_Witness ==
    /\ Returned
    /\ NumWith(Signals, "high") = 1
    /\ NumCriticalHigh(Signals) = 1
    /\ NumWith(Signals, "medium") = 0
    /\ Health.severity = "high"

\* C9: the k-th prioritized action has priority k, and its tier is primary
\* iff k <= 5 and secondary otherwise.
C9_DensePriorities ==
    Returned =>
        \A k \in 1..Len(Actions) :
            /\ Actions[k].priority = k
            /\ Actions[k].tier = (IF k <= 5 THEN "primary" ELSE "secondary")

C9_Witness ==
    /\ Returned
    /\ Len(Actions) = 7
    /\ Actions[5].tier = "primary"
    /\ Actions[6].tier = "secondary"
    /\ Actions[7].priority = 7

\* the keys of the action catalog
CatalogKeys == {SignalKeys[i] : i \in 1..Len(SignalKeys)}

\* the signals of a list that call for an action
NeedsAction(signals) ==
    {i \in 1..Len(signals) :
        signals[i].severity \in {"medium", "high"} /\ signals[i].key \in CatalogKeys}

\* C10: the action list has exactly one action for each signal that is
\* medium or high and has a catalog template, none for a low signal and
\* none for a signal without a template.
C10_OneActionPerActionableSignal ==
    ret # <<>> =>
        /\ Len(ret[1]) = Cardinality(NeedsAction(args[1]))
        /\ \A i \in NeedsAction(args[1]) :
              \E k \in 1..Len(ret[1]) :
                 /\ ret[1][k].signal_key = args[1][i].key
                 /\ ret[1][k].severity = args[1][i].severity
        /\ \A k \in 1..Len(ret[1]) :
              /\ ret[1][k].severity # "low"
              /\ ret[1][k].signal_key \in CatalogKeys
        /\ \A key \in CatalogKeys :
              Cardinality({k \in 1..Len(ret[1]) : ret[1][k].signal_key = key})
                 = Cardinality({i \in NeedsAction(args[1]) : args[1][i].key = key})

C10_Witness ==
    /\ ret # <<>>
    /\ Len(args[1]) = 2
    /\ args[1][1].key = UnknownKey /\ args[1][1].severity = "high"
    /\ args[1][2].key = "deals_missing_amount_pct" /\ args[1][2].severity = "medium"
    /\ Len(ret[1]) = 1
    /\ ret[1][1].signal_key = "deals_missing_amount_pct"

\* the order weight of the catalog template of a signal key
OrderWeightOf(key) ==
    CASE key = "deals_missing_close_date_pct" -> 100
      [] key = "deals_missing_amount_pct" -> 99
      [] key = "deals_missing_pipeline_or_stage_pct" -> 98
      [] key = "contacts_missing_lifecycle_pct" -> 80
      [] key = "companies_missing_domain_pct" -> 60
      [] key = "contacts_missing_email_pct" -> 50
      [] key = "companies_missing_industry_pct" -> 40

\* the score of an action: order weight plus 10 for high severity
ActionScore(a) == OrderWeightOf(a.signal_key) + (IF a.severity = "high" THEN 10 ELSE 0)

\* the position of a key in the signals list of runAudit
KeyPosition(key) == CHOOSE i \in 1..Len(SignalKeys) : SignalKeys[i] = key

\* C11: the prioritized actions are in non-increasing score order, the score
\* being the order weight plus 10 for high and plus 0 for medium severity;
\* actions of equal score are in the order of their signals.
C11_OrderedByScore ==
    Returned =>
        \A k \in 1..(Len(Actions) - 1) :
            \/ ActionScore(Actions[k]) > ActionScore(Actions[k + 1])
            \/ /\ ActionScore(Actions[k]) = ActionScore(Actions[k + 1])
               /\ KeyPosition(Actions[k].signal_key) < KeyPosition(Actions[k + 1].signal_key)

C11_Witness ==
    /\ Returned
    /\ \E k \in 1..(Len(Actions) - 1) :
          /\ Actions[k].signal_key = "contacts_missing_email_pct"
          /\ Actions[k].severity = "high"
          /\ Actions[k + 1].signal_key = "companies_missing_domain_pct"
          /\ Actions[k + 1].severity = "medium"
          /\ ActionScore(Actions[k]) = 60
          /\ ActionScore(Actions[k + 1]) = 60

\* the position of the action of a key in the action list, 0 when absent
ActionIndex(actions, key) ==
    IF \E k \in 1..Len(actions) : actions[k].signal_key = key
    THEN CHOOSE k \in 1..Len(actions) : actions[k].signal_key = key
    ELSE 0

\* when both keys have an action, the action of the first precedes that of the second
Precedes(actions, first, second) ==
    (ActionIndex(actions, first) > 0 /\ ActionIndex(actions, second) > 0)
        => ActionIndex(actions, first) < ActionIndex(actions, second)

\* C12: in every action list the revenue actions (close date, amount) come
\* before the pipeline/stage action, which comes before the lifecycle action,
\* which comes before the email, domain and industry actions.
C12_DomainOrdering ==
    Returned =>
        /\ Precedes(Actions, "deals_missing_close_date_pct",
                    "deals_missing_pipeline_or_stage_pct")
        /\ Precedes(Actions, "deals_missing_amount_pct",
                    "deals_missing_pipeline_or_stage_pct")
        /\ Precedes(Actions, "deals_missing_pipeline_or_stage_pct",
                    "contacts_missing_lifecycle_pct")
        /\ \A key \in {"contacts_missing_email_pct", "companies_missing_domain_pct",
                       "companies_missing_industry_pct"} :
              Precedes(Actions, "contacts_missing_lifecycle_pct", key)

\* the indexes of the signals that are critical, high and deal signals
CriticalHighDeals(signals) ==
    {i \in 1..Len(signals) :
        /\ signals[i].criticality = "critical"
        /\ signals[i].severity = "high"
        /\ signals[i].key \in {"deals_missing_close_date_pct", "deals_missing_amount_pct",
                               "deals_missing_pipeline_or_stage_pct"}}

\* the arithmetic mean of the values of the signals at the indexes I, rounded
\* to the nearest integer, halves up
RoundedMean(signals, I) ==
    LET n == Len(signals)
        den[i \in 0..n] ==
            IF i = 0 THEN 1
            ELSE IF i \in I THEN den[i - 1] * signals[i].value.den ELSE den[i - 1]
        D == den[n]
        num[i \in 0..n] ==
            IF i = 0 THEN 0
            ELSE IF i \in I
                 THEN num[i - 1] + signals[i].value.num * (D \div signals[i].value.den)
                 ELSE num[i - 1]
        k == Cardinality(I)
    IN  (2 * num[n] + D * k) \div (2 * D * k)

\* a value rounded to the nearest integer, halves up
Rounded(v) == (2 * v.num + v.den) \div (2 * v.den)

\* C13: when a critical signal is high the primary risk driver is derived
\* from the critical-high deal signals only: with two or more the forecast
\* sentence with the rounded mean of their values, with exactly one that
\* signal's label, rounded value and first impact.
C13_CriticalDealsFirst ==
    (Returned /\ NumCriticalHigh(Signals) >= 1) =>
        LET I == CriticalHighDeals(Signals)
            one == Signals[CHOOSE i \in I : TRUE]
        IN  /\ I # {}
            /\ Cardinality(I) >= 2 =>
                  Health.primary_risk_driver =
                      "Forecast integrity is compromised: "
                      \o ToString(RoundedMean(Signals, I))
                      \o "% of deals lack critical forecasting fields (close date, amount), "
                      \o "making revenue projections unreliable."
            /\ Cardinality(I) = 1 =>
                  Health.primary_risk_driver =
                      one.label \o ": " \o ToString(Rounded(one.value))
                      \o "% of deals affected. " \o one.impacts[1] \o "."

C13_Witness ==
    /\ Returned
    /\ Cardinality(CriticalHighDeals(Signals)) = 2
    /\ \E i \in 1..Len(Signals) :
          /\ Signals[i].criticality # "critical"
          /\ Signals[i].severity = "high"
          /\ \A j \in CriticalHighDeals(Signals) :
                CompareValues(Signals[i].value, Signals[j].value) = 1
    /\ RoundedMean(Signals, CriticalHighDeals(Signals)) = 63
    /\ Health.primary_risk_driver =
          "Forecast integrity is compromised: 63% of deals lack critical "
          \o "forecasting fields (close date, amount), making revenue projections unreliable."

\* the indexes of the high-severity signals
HighIndexes(signals) == {i \in 1..Len(signals) : signals[i].severity = "high"}

\* a.value < b.value
ValueLess(a, b) == a.value.num * b.value.den < b.value.num * a.value.den

\* the first of the high-severity signals of largest value
FirstWorst(signals) ==
    CHOOSE i \in HighIndexes(signals) :
        /\ \A j \in HighIndexes(signals) : ~ValueLess(signals[i], signals[j])
        /\ \A j \in HighIndexes(signals) : j < i => ValueLess(signals[j], signals[i])

\* C14: when no critical signal is high but some signal is high, the primary
\* risk driver names the high signal of largest value, and among several of
\* the largest value the first in the signals list.
C14_WorstHighSignal ==
    (Returned /\ NumCriticalHigh(Signals) = 0 /\ HighIndexes(Signals) # {}) =>
        LET worst == Signals[FirstWorst(Signals)]
        IN  Health.primary_risk_driver =
                worst.label \o ": " \o ToString(Rounded(worst.value))
                \o "% missing. " \o worst.impacts[1] \o "."

C14_Witness ==
    /\ Returned
    /\ NumCriticalHigh(Signals) = 0
    /\ HighIndexes(Signals) = {2, 3}
    /\ Signals[2].value = Rat(50, 1)
    /\ Signals[3].value = Rat(50, 1)
    /\ Signals[1].severity = "medium"
    /\ Health.primary_risk_driver =
          "Contacts Missing Lifecycle Stage: 50% missing. "
          \o "Funnel conversion rates cannot be calculated."

\* C15: the primary risk driver is the fixed "acceptable" sentence iff no
\* signal is high; with three empty collections the score is 0 and the
\* driver is that sentence.
C15_AcceptableIffNoHigh ==
    Returned =>
        /\ (Health.primary_risk_driver
               = "Data quality is acceptable. Minor improvements recommended.")
           <=> (HighIndexes(Signals) = {})
        /\ (contacts = Arr(<<>>) /\ companies = Arr(<<>>) /\ deals = Arr(<<>>)) =>
              /\ Health.score = 0
              /\ Health.primary_risk_driver
                    = "Data quality is acceptable. Minor improvements recommended."

C15_Witness ==
    /\ Returned
    /\ contacts = Arr(<<>>) /\ companies = Arr(<<>>) /\ deals = Arr(<<>>)
    /\ HighIndexes(Signals) = {}
    /\ Health.score = 0
    /\ Health.primary_risk_driver
          = "Data quality is acceptable. Minor improvements recommended."

\* the keys of runAudit that the registry defines, in call order
DefinedKeys == SelectSeq(SignalKeys, LAMBDA k : k \in DOMAIN registry)

\* C16: the signals list holds exactly one SignalResult for each of the seven
\* keys that the registry defines, in the fixed order; a key without a
\* definition gives no SignalResult, adds nothing to the penalty or to the
\* high and medium counts, and raises no error.
C16_RegistryKeysOnly ==
    result # <<>> =>
        /\ Returned
        /\ [i \in 1..Len(Signals) |-> Signals[i].key] = DefinedKeys
        /\ \A i \in 1..Len(Signals) :
              /\ Signals[i].label = SIGNAL_REGISTRY[Signals[i].key].label
              /\ Signals[i].criticality = SIGNAL_REGISTRY[Signals[i].key].criticality
        /\ LET acc == processSignals(registry, contacts, companies, deals)
           IN  /\ acc.totalPenalty = PenaltySum(Signals)
               /\ acc.highCount = NumWith(Signals, "high")
               /\ acc.mediumCount = NumWith(Signals, "medium")
        /\ Health.score =
              IF Len(deals.items) = 0 \/ AllHigh(Signals) THEN 0
              ELSE Max(10, 100 - PenaltySum(Signals))

C16_Witness ==
    /\ Returned
    /\ DOMAIN registry = DOMAIN SIGNAL_REGISTRY \ {"deals_missing_amount_pct"}
    /\ Len(deals.items) > 0
    /\ calculateMissingPct(deals, "amount") = Rat(50, 1)
    /\ Len(Signals) = 6
    /\ Signals[5].key = "deals_missing_close_date_pct"
    /\ Signals[6].key = "deals_missing_pipeline_or_stage_pct"
    /\ NumWith(Signals, "high") = 1
    /\ Health.score = 100 - PenaltySum(Signals)

\* the deals that lack the stage or the pipeline
StageOrPipelineMissing(items) ==
    {i \in 1..Len(items) :
        \/ items[i].dealstage \in {JSNull, JSUndefined, ""}
        \/ items[i].pipeline \in {JSNull, JSUndefined, ""}}

\* p.value >= q.value for two percentages
AtLeast(p, q) == p.num * q.den >= q.num * p.den

\* C17: for a non-empty deals collection the pipeline-or-stage signal is
\* 100 * m / n, m the deals missing the stage or the pipeline, each counted
\* once, and it is at least the missing percentage of either field alone.
C17_PipelineOrStage ==
    (Returned /\ Len(deals.items) > 0) =>
        LET v == Signals[7].value
        IN  /\ Signals[7].key = "deals_missing_pipeline_or_stage_pct"
            /\ v.num * Len(deals.items)
                  = 100 * Cardinality(StageOrPipelineMissing(deals.items)) * v.den
            /\ AtLeast(v, Rat(100 * Cardinality(MissingIndexes(deals.items, "dealstage")),
                              Len(deals.items)))
            /\ AtLeast(v, Rat(100 * Cardinality(MissingIndexes(deals.items, "pipeline")),
                              Len(deals.items)))

C17_Witness ==
    /\ Returned
    /\ Len(deals.items) = 2
    /\ deals.items[1].dealstage = "" /\ deals.items[1].pipeline = JSNull
    /\ deals.items[2].dealstage = "x" /\ deals.items[2].pipeline = "x"
    /\ Signals[7].value = Rat(50, 1)

\* the current run has the input collections of the previous run
SameInputs ==
    /\ prevRun # <<>>
    /\ prevRun[1].contacts = contacts
    /\ prevRun[1].companies = companies
    /\ prevRun[1].deals = deals

C20_InputsAndSignalsUnchanged ==
    [][(result = <<>> /\ result' # <<>>) =>
          /\ contacts' = contacts
          /\ companies' = companies
          /\ deals' = deals
          /\ result'[1].status = "returned" =>
                result'[1].signals
                   = processSignals(registry, contacts, companies, deals).signalResults]_vars

C20_Witness ==
    /\ Returned
    /\ NumCriticalHigh(Signals) = 0
    /\ Signals[1].severity = "high"
    /\ Signals[2].severity = "high"
    /\ ValueLess(Signals[1], Signals[2])
    /\ Len(Actions) >= 2
    /\ Actions[1].signal_key = "contacts_missing_lifecycle_pct"
    /\ Actions[2].signal_key = "contacts_missing_email_pct"
    /\ [i \in 1..Len(Signals) |-> Signals[i].key] = SignalKeys

\* C19: the result of a run depends only on the run's own three collections
\* and the registry as it is defined, whatever earlier runs there were and
\* whatever a caller did to the result of another run.
C19_RunsIndependent ==
    Returned => result[1] = runAudit(SIGNAL_REGISTRY, contacts, companies, deals)

NoFieldMissing ==
    /\ contacts.kind = "array" /\ companies.kind = "array" /\ deals.kind = "array"
    /\ \A i \in 1..Len(contacts.items) :
          ~IsFalsy(contacts.items[i].email) /\ ~IsFalsy(contacts.items[i].lifecyclestage)
    /\ \A i \in 1..Len(companies.items) :
          ~IsFalsy(companies.items[i].domain) /\ ~IsFalsy(companies.items[i].industry)
    /\ \A i \in 1..Len(deals.items) :
          /\ ~IsFalsy(deals.items[i].closedate) /\ ~IsFalsy(deals.items[i].amount)
          /\ ~IsFalsy(deals.items[i].dealstage) /\ ~IsFalsy(deals.items[i].pipeline)

\* C27: the score returned by runAudit is 0 or an integer from 10 to 50: never
\* in 1..9, never above 50, and exactly 50 for non-empty deals with no missing
\* field at all (seven low signals: 4*5 + 3*10 = 50).
C27_ScoreBand ==
    Returned =>
        /\ Health.score \in {0} \cup (10..50)
        /\ (NoFieldMissing /\ Len(deals.items) > 0) => Health.score = 50

C27_Witness ==
    /\ Returned
    /\ NoFieldMissing
    /\ Len(deals.items) > 0
    /\ Len(Signals) = 7
    /\ \A i \in 1..7 : Signals[i].severity = "low"
    /\ PenaltySum(Signals) = 50
    /\ Health.score = 50

\* two collections have the same records as far as missing and present go
SamePattern(a, b) ==
    /\ a.kind = b.kind
    /\ a.kind = "array" =>
          /\ Len(a.items) = Len(b.items)
          /\ \A i \in 1..Len(a.items) :
                /\ DOMAIN a.items[i] = DOMAIN b.items[i]
                /\ \A f \in DOMAIN a.items[i] :
                      IsFalsy(a.items[i][f]) <=> IsFalsy(b.items[i][f])

SamePatternAsBefore ==
    /\ prevRun # <<>>
    /\ SamePattern(prevRun[1].contacts, contacts)
    /\ SamePattern(prevRun[1].companies, companies)
    /\ SamePattern(prevRun[1].deals, deals)

\* C21: two datasets with the same record counts and the same missing and
\* present fields, whatever their present values, give the same audit result
\* and the same agent input (by normalizeAudit and by buildAgentInput): no
\* raw record value reaches the language model.
C21_NoRawValueInAgentInput ==
    SamePatternAsBefore =>
        /\ result # <<>> => result[1] = prevRun[1].result
        /\ (agentInput # <<>> /\ agentInput[1].by = prevRun[1].agentInput.by) =>
              agentInput[1].input = prevRun[1].agentInput.input

C21_Witness ==
    /\ SamePatternAsBefore
    /\ contacts # prevRun[1].contacts
    /\ companies # prevRun[1].companies
    /\ deals # prevRun[1].deals
    /\ \E i \in 1..Len(deals.items) : IsFalsy(deals.items[i].closedate)
    /\ \E i \in 1..Len(deals.items) : deals.items[i].amount = "0"
    /\ Returned
    /\ agentInput # <<>>
    /\ agentInput[1].by = "buildAgentInput"
    /\ prevRun[1].agentInput.by = "buildAgentInput"
    /\ Len(agentInput[1].input.top_actions) >= 1
    /\ agentInput[1].input = prevRun[1].agentInput.input

\* the output has what the contract asks for
MeetsContract(o) ==
    /\ o.executive_summary.kind = "string" /\ o.executive_summary.value # ""
    /\ o.top_risks.kind = "array" /\ Len(o.top_risks.items) >= 1
    /\ o.recommended_focus_areas.kind = "array"
    /\ Len(o.recommended_focus_areas.items) >= 1
    /\ o.confidence_level.kind = "string" /\ o.confidence_level.value # ""

AgentReturned == aiOutput # <<>> /\ aiOutput[1].status = "returned"

ContractViolation == "AI Contract Violation"

\* the messages that start with AI Contract Violation and go on about the
\* keys or about one of the arrays
ViolationMessages ==
    {ContractViolation \o ": Missing keys ["
         \o Join(SelectSeq(requiredKeys, LAMBDA k : k \in K)) \o "]" :
        K \in SUBSET KeySet \ {{}}}
    \cup {ContractViolation \o ": " \o a \o " must be a non-empty array" :
            a \in {"top_risks", "recommended_focus_areas"}}

\* C22: in both modes runExecutiveAgent returns an output only if it has a
\* non-empty executive_summary, non-empty arrays top_risks and focus areas and
\* a confidence_level; for any other output it throws an error that starts
\* with AI Contract Violation, and the routes put an ai_interpretation only
\* in a success response, and only the validated output.
C22_OnlyValidatedOutput ==
    /\ aiOutput # <<>> /\ output # <<>> =>
          IF MeetsContract(output[1])
          THEN aiOutput[1] = [status |-> "returned", value |-> output[1]]
          ELSE /\ aiOutput[1].status = "threw"
               /\ aiOutput[1].message \in ViolationMessages
    /\ AgentReturned => output # <<>> /\ MeetsContract(aiOutput[1].value)
    /\ response # <<>> =>
          IF AgentReturned
          THEN /\ response[1].status = 200
               /\ response[1].ai_interpretation = aiOutput[1].value
          ELSE /\ response[1].status = 500
               /\ "ai_interpretation" \notin DOMAIN response[1]
    /\ \A i \in 1..Len(events) :
          "ai_interpretation" \in DOMAIN events[i] =>
              /\ AgentReturned
              /\ events[i].status = "complete"
              /\ events[i].ai_interpretation = aiOutput[1].value

\* an output with every key present and an empty top_risks is rejected
C22_Witness ==
    /\ routePc = "done"
    /\ output # <<>>
    /\ \A k \in KeySet : IsTruthyValue(output[1][k])
    /\ output[1].top_risks = Arr(<<>>)
    /\ aiOutput[1].status = "threw"
    /\ aiOutput[1].message = "AI Contract Violation: top_risks must be a non-empty array"
    /\ (response # <<>> /\ response[1].status = 500) \/ (ended /\ events[Len(events)].status = "error")

\* the statuses of the events written so far
Statuses == [i \in 1..Len(events) |-> events[i].status]

ProgressEvents == <<"fetching", "analyzing", "facts", "generating">>

Terminated ==
    Len(events) > 0 /\ events[Len(events)].status \in {"complete", "error"}

\* the events before the last one when that is complete or error, else all
Body == IF Terminated THEN SubSeq(Statuses, 1, Len(events) - 1) ELSE Statuses

\* C26: once the token check has passed, POST /audit/stream writes fetching,
\* analyzing, facts, generating, then streaming chunks, then complete; a
\* failure writes exactly one error event instead of what would follow; the
\* handler always goes on until the stream is ended, the last event is then
\* complete or error and no other event is, and complete comes only after
\* facts and a validated output.
C26_StreamEventOrder ==
    Streaming =>
        /\ \A i \in 1..Len(Body) :
              Body[i] = IF i <= Len(ProgressEvents) THEN ProgressEvents[i] ELSE "streaming"
        /\ Terminated <=> ended
        /\ ended <=> routePc = "done"
        /\ ~ended => ENABLED NextRoute
        /\ (Terminated /\ events[Len(events)].status = "complete") =>
              /\ Len(Body) >= Len(ProgressEvents)
              /\ AgentReturned
        /\ (ended /\ ~AgentReturned) => events[Len(events)].status = "error"
        /\ response = <<>>

C26_Witness ==
    /\ Streaming
    /\ ended
    /\ Len(events) >= 7
    /\ events[3].status = "facts"
    /\ events[5].status = "streaming"
    /\ events[Len(events) - 1].status = "streaming"
    /\ events[Len(events)].status = "complete"

FetchReturned == fetchRet # <<>> /\ fetchRet[1].status = "returned"

\* C25: fetchAll never returns more than maxRecords records.
C25_AtMostMaxRecords ==
    FetchReturned => Len(fetchRet[1].value) <= maxRecords

RECURSIVE Concat(_)
Concat(ps) == IF Len(ps) = 0 THEN <<>> ELSE ps[1].results \o Concat(Tail(ps))

\* the records of the first k pages
Total(k) == Len(Concat(SubSeq(pages, 1, k)))

\* the loop goes on after the k-th page
GoesOn(k) == pages[k].next /\ Total(k) < maxRecords

\* C30: provided every page with a cursor has a record, fetchAll ends: at the
\* first page without a cursor or the first page that brings the total to
\* maxRecords or more it returns all pages concatenated in request order, and
\* at the first failed request it throws Failed to fetch <objectType> and
\* returns nothing.
C30_FetchAllTerminates ==
    /\ <>(fetchPc = "done")
    /\ [](fetchPc = "done" =>
            /\ fetchRet # <<>>
            /\ \A k \in 1..(Len(pages) - 1) : GoesOn(k)
            /\ IF FetchReturned
               THEN /\ Len(pages) >= 1
                    /\ ~GoesOn(Len(pages))
                    /\ fetchRet[1].value = Concat(pages)
               ELSE /\ fetchRet[1] = [status |-> "threw",
                                      message |-> "Failed to fetch " \o objectType]
                    /\ Len(pages) >= 1 => GoesOn(Len(pages)))

C30_Witness ==
    /\ fetchPc = "done"
    /\ FetchReturned
    /\ Len(pages) >= 3
    /\ pages[Len(pages)].next
    /\ Len(fetchRet[1].value) >= maxRecords
    /\ fetchRet[1].value[Len(fetchRet[1].value)].page = Len(pages)

\* the callback was let through to the code check
PassedValidation(c) == c.status # "403"

\* the token request of the callback was sent
Exchanged(c) == c.status \in {"exchange", "200", "500"}

\* the state of the i-th callback was issued and was at most ten minutes old
IssuedAndFresh(i) ==
    /\ callbacks[i].state # <<>>
    /\ \E e \in installs :
          /\ e.state = callbacks[i].state[1]
          /\ callbacks[i].at - e.createdAt <= STATE_EXPIRY_MS

PresentedBefore(i) ==
    \E j \in 1..(i - 1) : callbacks[j].state = callbacks[i].state

\* the tokens in the file are those of the callbacks answered 200
SavedTokens ==
    IF tokenFile = <<>> THEN {}
    ELSE {tokenFile[1].entries[h][1].access_token :
             h \in {g \in Hubs : tokenFile[1].entries[g] # <<>>}}

\* C23: a token exchange and a saveToken happen only for a callback whose
\* state /install issued at most ten minutes before and that was not
\* presented before, at most once per issued state; a callback with a
\* missing, unknown, expired or used state is answered 403, without a token
\* exchange and without a change of the token store.
C23_StateAuthorizesOneExchange ==
    /\ [](/\ \A i \in 1..Len(callbacks) :
                /\ Exchanged(callbacks[i]) => IssuedAndFresh(i) /\ ~PresentedBefore(i)
                /\ (~IssuedAndFresh(i) \/ PresentedBefore(i)) => callbacks[i].status = "403"
          /\ \A i, j \in 1..Len(callbacks) :
                (Exchanged(callbacks[i]) /\ Exchanged(callbacks[j])
                    /\ callbacks[i].state = callbacks[j].state) => i = j
          /\ \A t \in SavedTokens :
                \E i \in 1..Len(callbacks) :
                    callbacks[i].status = "200" /\ t = "access" \o ToString(i)
          /\ (tokenFile = <<>>) <=> (\A i \in 1..Len(callbacks) : callbacks[i].status # "200"))
    /\ [][(Len(callbacks') = Len(callbacks) + 1
              /\ callbacks'[Len(callbacks')].status = "403") => tokenFile' = tokenFile]_vars

C23_Witness ==
    /\ Len(callbacks) = 2
    /\ callbacks[1].status = "200"
    /\ callbacks[2].state = callbacks[1].state
    /\ callbacks[2].code # <<>>
    /\ callbacks[2].at - callbacks[1].at <= STATE_EXPIRY_MS
    /\ callbacks[2].status = "403"
    /\ tokenFile # <<>>

\* C28: a state that passes validation is out of pendingStates before the
\* code is checked and the exchange attempted: after a callback answered 400
\* or 500 a retry with the same state is answered 403, and both failures
\* leave the token store unchanged.
C28_StateConsumedBeforeFailure ==
    /\ [](/\ \A i \in 1..Len(callbacks) :
                PassedValidation(callbacks[i]) =>
                    /\ StateData(pendingStates, callbacks[i].state[1]) = <<>>
                    /\ \A j \in (i + 1)..Len(callbacks) :
                          callbacks[j].state = callbacks[i].state =>
                              callbacks[j].status = "403")
    /\ [][(\E i \in 1..Len(callbacks') :
              /\ callbacks'[i].status \in {"400", "500"}
              /\ (i > Len(callbacks) \/ callbacks[i].status # callbacks'[i].status))
          => tokenFile' = tokenFile]_vars

C28_Witness ==
    /\ Len(callbacks) = 2
    /\ callbacks[1].status = "500"
    /\ callbacks[2].state = callbacks[1].state
    /\ callbacks[2].code # <<>>
    /\ callbacks[2].at = callbacks[1].at
    /\ callbacks[2].status = "403"
    /\ tokenFile = <<>>

\* the stored entry whose access token getValidToken returned
ReturnedEntry ==
    LET entry == tokenFile[1].entries[tokenRet[1].hub_id][1]
    IN  entry

\* C24: whenever getValidToken returns an access_token, that token is not
\* expired and not within five minutes of its expiry at the time of return.
C24_ReturnedTokenIsValid ==
    (tokenPc = "done" /\ tokenRet[1].status = "ok") =>
        /\ ReturnedEntry.access_token = tokenRet[1].access_token
        /\ ReturnedEntry.expires_at # <<>>
        /\ returnedAt[1] <= ReturnedEntry.expires_at[1] - RefreshBuffer

\* the other half of C24: 400 without hub_id, 401 without a stored token,
\* 401 when the refresh fails, and a refreshed token is a valid one
C24_ErrorsAndRefresh ==
    tokenPc = "done" =>
        /\ hub_id = <<>> => tokenRet[1].status = "400"
        /\ (hub_id # <<>> /\ getToken(tokenFile, hub_id) = <<>>) =>
              tokenRet[1].status = "401"
        /\ (tokenRet[1].status = "ok" /\ tokenRet[1].access_token = "refreshed") =>
              C24_ReturnedTokenIsValid

\* the last write of saveToken for a hub: 0 when there is none
LastSaved(h) ==
    LET ks == {k \in 1..Len(saved) : saved[k].hubId = h}
    IN  IF ks = {} THEN 0 ELSE CHOOSE k \in ks : \A j \in ks : j <= k

\* C29: under every interleaving of saveToken and refreshToken calls no
\* stored entry is lost: getToken(h) returns the token of the last completed
\* saveToken for h, and getToken() the token of the hub whose saveToken
\* completed last.
C29_NoStoredEntryLost ==
    /\ \A h \in Hubs :
          getToken(tokenFile, <<h>>) =
              IF LastSaved(h) = 0 THEN <<>>
              ELSE <<[hub_id |-> h, token |-> saved[LastSaved(h)].token]>>
    /\ getToken(tokenFile, <<>>) =
          IF saved = <<>> THEN <<>>
          ELSE <<[hub_id |-> saved[Len(saved)].hubId,
                  token |-> saved[Len(saved)].token]>>
    /\ \A k \in 1..Len(saved) :
          saved[k].token.access_token = "access" \o ToString(saved[k].call)

C29_Witness ==
    /\ Len(saved) = 3
    /\ storeCalls[2].op = "refreshToken"
    /\ storeCalls[3].op = "saveToken"
    /\ storeCalls[3].hubId # storeCalls[2].hubId
    /\ saved[2].call = 3
    /\ saved[3].call = 2
    /\ getToken(tokenFile, <<>>)[1].token.access_token = "access2"
    /\ getToken(tokenFile, <<storeCalls[3].hubId>>)[1].token.access_token = "access3"

====
